---- MODULE Spec2Model ----
(***************************************************************************)
(* Model of the pull-request event engine of the opensauced API:            *)
(* PullRequestGithubEventsService (timescale/pull_request_github_events     *)
(* .service) over the append-only table pull_request_github_events.         *)
(*                                                                          *)
(* Time is counted in ticks; one day is DayLen ticks, so that a timestamp   *)
(* and its ::DATE cast differ.  Strings that the code lower-cases are kept  *)
(* with their casing and lowered by Lower.  A comma-separated query string  *)
(* is the sequence of its segments (the empty string is <<"">>).            *)
(*                                                                          *)
(* pulls is the table pull_requests of PullRequestService (joined with its  *)
(* repos), kept apart from the event log.                                   *)
(* calls is the sequence of calls the handler last started has awaited so  *)
(* far: the collaborators' lookups and the queries sent to the database.   *)
(* pending is the invocation that runs, suspended at its await between the *)
(* count and the items; parked is another invocation suspended there while *)
(* the event loop runs the first.  source tells whether the event source   *)
(* answers queries ("up") or rejects them ("down").  accounts is the API   *)
(* database of UserService: the users row and the rows related to it.      *)
(***************************************************************************)
EXTENDS Integers, Sequences, FiniteSets, TLC

VARIABLES events, pending, resp, calls, pulls, parked, source, accounts

vars == <<events, pending, resp, calls, pulls, parked, source, accounts>>

(* ------------------------------ bounds --------------------------------- *)
MaxEvents == 2
DayLen == 2
Now == 8
MaxSkip == 2
MaxLimit == 2

(* ------------------------------ values --------------------------------- *)
NULL == "<null>"
UNDEF == "<undefined>"
NoCsv == <<>>
NullTime == 0 - 1000

NoPending == [kind |-> "none"]
NoResp == [kind |-> "none"]

Max2(a, b) == IF a >= b THEN a ELSE b
Min2(a, b) == IF a <= b THEN a ELSE b

(* String.prototype.toLowerCase / SQL LOWER on the strings of the model *)
LowerTable ==
  [s \in {"X", "Y", "A/B", "C/D", "OPEN", "Open", "CLOSED", "Closed"} |->
     CASE s = "X" -> "x"
       [] s = "Y" -> "y"
       [] s = "A/B" -> "a/b"
       [] s = "C/D" -> "c/d"
       [] s \in {"OPEN", "Open"} -> "open"
       [] OTHER -> "closed"]

Lower(s) == IF s \in DOMAIN LowerTable THEN LowerTable[s] ELSE s

(* a JavaScript string is truthy unless undefined or empty *)
Truthy(s) == s \notin {UNDEF, ""}

(* the same for a comma-separated string, kept as its segments *)
TruthyCsv(s) == s # NoCsv /\ s # <<"">>

(* str.toLowerCase().split(",") as the set of its lower-cased segments *)
LowerSplit(s) == {Lower(s[i]) : i \in 1..Len(s)}

(* str.split(",") as the set of its segments *)
Split(s) == {s[i] : i \in 1..Len(s)}

(* GetPrevDateISOString(prevDays): the instant prevDays days before now *)
GetPrevDateISOString(prevDays) == Now - prevDays * DayLen

(* timestamp::DATE, a day number *)
ToDate(t) == t \div DayLen

(* ------------------------------ events --------------------------------- *)
AuthorId(login) == IF Lower(login) = "x" THEN 1 ELSE 2
RepoId(repo) == IF Lower(repo) = "a/b" THEN "1" ELSE "2"

MkEvent(pr, repo, login, t, action, state, draft, merged, created, mergedAt, lock) ==
  [event_id |-> 0, pr_number |-> pr, repo_name |-> repo, repo_id |-> RepoId(repo),
   pr_author_login |-> login, pr_author_id |-> AuthorId(login),
   event_time |-> t, pr_action |-> action, pr_state |-> state,
   pr_is_draft |-> draft, pr_is_merged |-> merged,
   pr_created_at |-> created, pr_merged_at |-> mergedAt,
   pr_active_lock_reason |-> lock]

(* rows of table pull_request_github_events *)
Table(log) == {log[i] : i \in 1..Len(log)}

(* ------------------- common table expressions (CTE) -------------------- *)
(* A query builder is the record of what the code put into it: the         *)
(* PARTITION BY key, the ORDER BY direction of ROW_NUMBER, the joined       *)
(* subqueries, the WHERE clauses in the order they were added, and the      *)
(* named parameters (a later andWhere with the same parameter name          *)
(* overwrites the value, as QueryBuilder.setParameter does).                *)

NoParams == [repo_name |-> UNDEF, author |-> UNDEF, repoNames |-> {},
             repoIds |-> {}, userNames |-> {}, status |-> UNDEF]

Clause(kind, lit) == [kind |-> kind, lit |-> lit]

NoJoin == [type |-> "none", repos |-> {}, startDate |-> 0, range |-> 0, prevOn |-> "none"]

SqlEq(a, b) == a # NULL /\ b # NULL /\ a = b

(* x BETWEEN lo AND hi *)
Between(x, lo, hi) == lo <= x /\ x <= hi

(* SELECT DISTINCT LOWER(pr_author_login) ... WHERE LOWER(repo_name) IN (repos)
   AND event_time BETWEEN lo AND hi *)
MonthPrs(log, repos, lo, hi) ==
  {Lower(e.pr_author_login) :
     e \in {x \in Table(log) : Lower(x.repo_name) \in repos /\ Between(x.event_time, lo, hi)}}

current_month_prs(log, j) ==
  MonthPrs(log, j.repos, j.startDate - j.range * DayLen, j.startDate)

previous_month_prs(log, j) ==
  MonthPrs(log, j.repos, j.startDate - (j.range + j.range) * DayLen, j.startDate - j.range * DayLen)

(* LEFT JOIN: the matching right rows, or one NULL row when none matches *)
LeftJoin(matches) == IF matches = {} THEN {NULL} ELSE matches

(* FROM pull_request_github_events [LEFT JOIN current_month_prs ON ...
   LEFT JOIN previous_month_prs ON ...] *)
FromRows(cte, log) ==
  IF cte.join.type = "none"
  THEN {[ev |-> e, cur |-> NULL, prev |-> NULL] : e \in Table(log)}
  ELSE UNION {
         UNION {
           {[ev |-> e, cur |-> c, prev |-> p] :
              p \in LeftJoin({q \in previous_month_prs(log, cte.join) :
                                IF cte.join.prevOn = "current"
                                THEN SqlEq(e.pr_author_login, c)
                                ELSE SqlEq(e.pr_author_login, q)})} :
           c \in LeftJoin({d \in current_month_prs(log, cte.join) :
                             SqlEq(e.pr_author_login, d)})} :
         e \in Table(log)}

Holds(c, r, params) ==
  CASE c.kind = "author_eq" -> Lower(r.ev.pr_author_login) = Lower(params.author)
    [] c.kind = "repo_eq" -> Lower(r.ev.repo_name) = Lower(params.repo_name)
    [] c.kind = "time_le" -> c.lit >= r.ev.event_time
    [] c.kind = "time_ge" -> c.lit <= r.ev.event_time
    [] c.kind = "repo_in" -> Lower(r.ev.repo_name) \in params.repoNames
    [] c.kind = "repo_id_in" -> r.ev.repo_id \in params.repoIds
    [] c.kind = "login_in" -> Lower(r.ev.pr_author_login) \in params.userNames
    [] c.kind = "state_eq" -> r.ev.pr_state = Lower(params.status)
    [] c.kind = "prev_not_null" -> r.prev # NULL
    [] c.kind = "prev_null" -> r.prev = NULL
    [] c.kind = "cur_not_null" -> r.cur # NULL
    [] c.kind = "cur_null" -> r.cur = NULL
    [] OTHER -> FALSE

(* the rows of the CTE before ROW_NUMBER is taken *)
CteRows(cte, log) ==
  {r \in FromRows(cte, log) :
     \A i \in 1..Len(cte.wheres) : Holds(cte.wheres[i], r, cte.params)}

(* PARTITION BY ... *)
PartitionKey(cte, r) ==
  CASE cte.partition = "pr" -> <<r.ev.pr_number, r.ev.repo_name>>
    [] cte.partition = "author_repo" -> <<r.ev.pr_author_login, r.ev.repo_name>>
    [] OTHER -> <<r.ev.pr_author_login, "">>

(* ORDER BY event_time <order>: a strictly precedes b *)
Precedes(order, a, b) ==
  IF order = "ASC" THEN a.ev.event_time < b.ev.event_time
                   ELSE a.ev.event_time > b.ev.event_time

(* every sequence the sort may produce: rows of equal event_time come in any order *)
RECURSIVE SortedSeqs(_, _)
SortedSeqs(rows, order) ==
  IF rows = {} THEN {<<>>}
  ELSE UNION {{<<x>> \o s : s \in SortedSeqs(rows \ {x}, order)} :
              x \in {y \in rows : \A z \in rows : ~Precedes(order, z, y)}}

(* RANK() in place of ROW_NUMBER(): rows of equal event_time share a number *)
RowNumberAsRank(cte, s, i) ==
  1 + Cardinality({j \in 1..(i - 1) : /\ PartitionKey(cte, s[j]) = PartitionKey(cte, s[i])
                                       /\ s[j].ev.event_time # s[i].ev.event_time})

(* ROW_NUMBER() OVER (PARTITION BY key ORDER BY event_time order) of s[i] *)
RowNumber(cte, s, i) ==
  1 + Cardinality({j \in 1..(i - 1) : PartitionKey(cte, s[j]) = PartitionKey(cte, s[i])})

(* WHERE row_num = 2: the row after the first of each partition *)
WhereRowNumTwo(cte, s) ==
  LET F[i \in 0..Len(s)] ==
        IF i = 0 THEN <<>>
        ELSE IF RowNumber(cte, s, i) = 2 THEN Append(F[i - 1], s[i]) ELSE F[i - 1]
  IN F[Len(s)]

(* FROM CTE WHERE row_num = 1, in the order of the CTE *)
WhereRowNumOne(cte, s) ==
  LET F[i \in 0..Len(s)] ==
        IF i = 0 THEN <<>>
        ELSE IF RowNumber(cte, s, i) = 1 THEN Append(F[i - 1], s[i]) ELSE F[i - 1]
  IN F[Len(s)]

(* every result the query "FROM CTE WHERE row_num = 1" may give *)
Deduplicated(cte, log) ==
  {WhereRowNumOne(cte, s) : s \in SortedSeqs(CteRows(cte, log), cte.order)}

(* an offset past the end clamped to the last row *)
OffsetLimitClamped(s, skip, limit) ==
  IF s = <<>> THEN <<>>
  ELSE SubSeq(s, Min2(skip + 1, Len(s)), Min2(Len(s), Min2(skip + 1, Len(s)) + limit - 1))

(* OFFSET skip LIMIT limit *)
OffsetLimit(s, skip, limit) == SubSeq(s, skip + 1, Min2(Len(s), skip + limit))

(* `${n}`: the decimal text of an integer, as sign and digits *)
RECURSIVE DigitsOf(_)
DigitsOf(n) == IF n < 10 THEN <<n>> ELSE Append(DigitsOf(n \div 10), n % 10)

TemplateString(n) == [neg |-> n < 0, digits |-> DigitsOf(IF n < 0 THEN 0 - n ELSE n)]

(* parseInt(text, 10) *)
RECURSIVE DigitsValue(_)
DigitsValue(d) ==
  IF d = <<>> THEN 0 ELSE 10 * DigitsValue(SubSeq(d, 1, Len(d) - 1)) + d[Len(d)]

parseInt(text) == IF text.neg THEN 0 - DigitsValue(text.digits) ELSE DigitsValue(text.digits)

(* columns selected from the CTE by the outer query *)
SelectPr(r) ==
  [event_id |-> r.ev.event_id, pr_number |-> r.ev.pr_number, repo_name |-> r.ev.repo_name,
   pr_author_login |-> r.ev.pr_author_login, event_time |-> r.ev.event_time,
   pr_state |-> r.ev.pr_state, pr_is_draft |-> r.ev.pr_is_draft,
   pr_is_merged |-> r.ev.pr_is_merged, pr_created_at |-> r.ev.pr_created_at,
   pr_merged_at |-> r.ev.pr_merged_at]

SelectAuthor(r) ==
  [event_id |-> r.ev.event_id, author_login |-> r.ev.pr_author_login,
   user_id |-> r.ev.pr_author_id, updated_at |-> r.ev.event_time]

MapRows(s, select) ==
  [i \in 1..Len(s) |-> IF select = "pr" THEN SelectPr(s[i]) ELSE SelectAuthor(s[i])]

(* ------------------------------ the log -------------------------------- *)
(* the event source appends one event; a page already returned is consumed *)
Ingest(e) ==
  /\ Len(events) < MaxEvents
  /\ events' = Append(events, [e EXCEPT !.event_id = Len(events) + 1])
  /\ resp' = NoResp
  /\ calls' = IF pending = NoPending THEN <<>> ELSE calls
  /\ UNCHANGED <<pending, pulls, parked, source, accounts>>

(* ------------------------------ failures ------------------------------- *)
(* what a collaborator hands back when its promise is rejected, in place of
   the names it would have found *)
Rejected == {"<rejected>"}

(* the errors the collaborators and the event source raise *)
RepoSearchFailure == "repoService.findAllWithFilters rejected"
ListFailure == "userListService.findContributorsByListId rejected"
QueryFailedError == "QueryFailedError"

QueryFailed(op, dto) == [kind |-> "error", op |-> op, dto |-> dto, error |-> QueryFailedError]

(* a catch that throws an error of its own in place of the one caught *)
RethrowWrapped(op, dto, error, made) ==
  /\ pending = NoPending
  /\ resp' = [kind |-> "error", op |-> op, dto |-> dto, error |-> "NotFoundException"]
  /\ calls' = made
  /\ UNCHANGED <<events, pending, pulls, parked, source, accounts>>

(* an awaited promise is rejected outside any try block: the handler ends
   with the error of the promise, after the calls it had made *)
Rethrow(op, dto, error, made) ==
  /\ pending = NoPending
  /\ resp' = [kind |-> "error", op |-> op, dto |-> dto, error |-> error]
  /\ calls' = made
  /\ UNCHANGED <<events, pending, pulls, parked, source, accounts>>

(* the event source goes down or comes back; a page already returned is
   consumed *)
Outage ==
  /\ source' = IF source = "up" THEN "down" ELSE "up"
  /\ resp' = NoResp
  /\ calls' = IF pending = NoPending THEN <<>> ELSE calls
  /\ UNCHANGED <<events, pending, pulls, parked, accounts>>

(* ------------------------- paginated queries --------------------------- *)
(* the counter built from the sliced query instead of the bare CTE *)
CountPhaseSliced(op, select, pageOptionsDto, cteBuilder) ==
  /\ pending = NoPending
  /\ \E counted \in Deduplicated(cteBuilder, events) :
       pending' = [kind |-> "counted", cte |-> cteBuilder,
                   skip |-> pageOptionsDto.skip, limit |-> pageOptionsDto.limit,
                   select |-> select, op |-> op, dto |-> pageOptionsDto,
                   itemCount |-> Len(OffsetLimit(counted, pageOptionsDto.skip,
                                                 pageOptionsDto.limit)),
                   seen |-> Len(events)]
  /\ resp' = NoResp
  /\ UNCHANGED <<events, pulls, parked, source, accounts>>

(* execCommonTableExpression up to "await cteCounter.getRawOne()": both    *)
(* queries are built from the same cteBuilder, the count is read first.    *)
CountPhase(op, select, pageOptionsDto, cteBuilder) ==
  /\ pending = NoPending
  /\ IF source = "down"
     THEN /\ pending' = pending
          /\ resp' = QueryFailed(op, pageOptionsDto)
     ELSE /\ \E counted \in Deduplicated(cteBuilder, events) :
               pending' = [kind |-> "counted", cte |-> cteBuilder,
                           skip |-> pageOptionsDto.skip, limit |-> pageOptionsDto.limit,
                           select |-> select, op |-> op, dto |-> pageOptionsDto,
                           itemCount |-> parseInt(TemplateString(Len(counted))),
                           seen |-> Len(events)]
          /\ resp' = NoResp
  /\ UNCHANGED <<events, pulls, parked, source, accounts>>

(* the query builder kept in a field of the service: the items are read with
   the builder of the invocation that built one last *)
ItemPhaseSharedBuilder ==
  /\ pending.kind = "counted"
  /\ \E rows \in Deduplicated(IF parked.kind = "counted" THEN parked.cte ELSE pending.cte,
                              events) :
       resp' = [kind |-> "page", cte |-> pending.cte, skip |-> pending.skip,
                limit |-> pending.limit, op |-> pending.op, dto |-> pending.dto,
                itemCount |-> pending.itemCount, seen |-> pending.seen,
                entities |-> MapRows(OffsetLimit(rows, pending.skip, pending.limit),
                                     pending.select)]
  /\ pending' = NoPending
  /\ calls' = Append(calls, "getRawMany")
  /\ UNCHANGED <<events, pulls, parked, source, accounts>>

(* the rest of it: "await queryBuilder.getRawMany()" and the PageDto *)
ItemPhase ==
  /\ pending.kind = "counted"
  /\ IF source = "down"
     THEN resp' = QueryFailed(pending.op, pending.dto)
     ELSE \E rows \in Deduplicated(pending.cte, events) :
            resp' = [kind |-> "page", cte |-> pending.cte, skip |-> pending.skip,
                     limit |-> pending.limit, op |-> pending.op, dto |-> pending.dto,
                     itemCount |-> pending.itemCount, seen |-> pending.seen,
                     entities |-> MapRows(OffsetLimit(rows, pending.skip, pending.limit),
                                          pending.select)]
  /\ pending' = NoPending
  /\ calls' = Append(calls, "getRawMany")
  /\ UNCHANGED <<events, pulls, parked, source, accounts>>

(* at an await the event loop runs another invocation: the one suspended
   between its count and its items gives way to the other *)
Switch ==
  /\ pending # parked
  /\ pending' = parked
  /\ parked' = pending
  /\ UNCHANGED <<events, resp, calls, pulls, source, accounts>>

(* the count taken over every row of the CTE, WHERE row_num = 1 left out *)
execCommonTableExpressionCountingRows(op, pageOptionsDto, cteBuilder) ==
  /\ pending = NoPending
  /\ pending' = [kind |-> "counted", cte |-> cteBuilder,
                 skip |-> pageOptionsDto.skip, limit |-> pageOptionsDto.limit,
                 select |-> "pr", op |-> op, dto |-> pageOptionsDto,
                 itemCount |-> Cardinality(CteRows(cteBuilder, events)),
                 seen |-> Len(events)]
  /\ resp' = NoResp
  /\ UNCHANGED <<events, pulls, parked, source, accounts>>

execCommonTableExpression(op, pageOptionsDto, cteBuilder) ==
  CountPhase(op, "pr", pageOptionsDto, cteBuilder)

(* "await this.repoService.findAllWithFilters(filtersDto)" *)
RepoSearchCalls(dto) ==
  IF Truthy(dto.filter) \/ Truthy(dto.topic)
  THEN <<"repoService.findAllWithFilters">> ELSE <<>>

(* "await this.userListService.findContributorsByListId(filtersDto, listId)" *)
ListCalls(dto) ==
  IF Truthy(dto.listId) THEN <<"userListService.findContributorsByListId">> ELSE <<>>

(* ---------------------------- CTE builders ----------------------------- *)
basePrAuthorCteBuilder(author, range, prevDays) ==
  LET startDate == GetPrevDateISOString(prevDays) IN
  [join |-> NoJoin,
   params |-> [NoParams EXCEPT !.author = Lower(author)],
   wheres |-> <<Clause("author_eq", 0), Clause("time_le", startDate),
                Clause("time_ge", startDate - range * DayLen)>>,
   partition |-> "pr",
   order |-> "DESC"]

baseRepoCteBuilder(repo, range, prevDays) ==
  LET startDate == GetPrevDateISOString(prevDays) IN
  [join |-> NoJoin,
   params |-> [NoParams EXCEPT !.repo_name = Lower(repo)],
   wheres |-> <<Clause("repo_eq", 0), Clause("time_le", startDate),
                Clause("time_ge", startDate - range * DayLen)>>,
   partition |-> "pr",
   order |-> "DESC"]

(* cteBuilder.andWhere(clause, {name: value}) *)
setParameter(params, name, value) ==
  CASE name = "author" -> [params EXCEPT !.author = value]
    [] name = "repo_name" -> [params EXCEPT !.repo_name = value]
    [] name = "repoNames" -> [params EXCEPT !.repoNames = value]
    [] name = "repoIds" -> [params EXCEPT !.repoIds = value]
    [] name = "userNames" -> [params EXCEPT !.userNames = value]
    [] name = "status" -> [params EXCEPT !.status = value]
    [] OTHER -> params

andWhere(cte, kind, lit, name, value) ==
  [cte EXCEPT !.wheres = Append(@, Clause(kind, lit)),
              !.params = setParameter(@, name, value)]

(* ------------------------------ listings ------------------------------- *)
findAllByPrAuthorCte(author, pageOptionsDto) ==
  LET startDate == GetPrevDateISOString(pageOptionsDto.prev_days_start_date)
      range == pageOptionsDto.range
      order == pageOptionsDto.orderDirection IN
  [join |-> NoJoin,
   params |-> [NoParams EXCEPT !.author = Lower(author)],
   wheres |-> <<Clause("author_eq", 0), Clause("time_le", startDate),
                Clause("time_ge", startDate - range * DayLen)>>,
   partition |-> "pr",
   order |-> order]

findAllByPrAuthor(author, pageOptionsDto) ==
  /\ execCommonTableExpression("findAllByPrAuthor", pageOptionsDto,
                               findAllByPrAuthorCte(author, pageOptionsDto))
  /\ calls' = <<"getRawOne">>

(* repos and users are what the repo-search and list-membership
   collaborators return when the code calls them *)
findAllWithFiltersCte(pageOptionsDto, repos, users) ==
  LET startDate == GetPrevDateISOString(pageOptionsDto.prev_days_start_date)
      range == pageOptionsDto.range
      order == pageOptionsDto.orderDirection
      c0 == [join |-> NoJoin, params |-> NoParams,
             wheres |-> <<Clause("time_le", startDate),
                          Clause("time_ge", startDate - range * DayLen)>>,
             partition |-> IF pageOptionsDto.distinctAuthors THEN "author_repo" ELSE "pr",
             order |-> order]
      c1 == IF Truthy(pageOptionsDto.contributor)
            THEN andWhere(c0, "author_eq", 0, "author", pageOptionsDto.contributor) ELSE c0
      c2 == IF Truthy(pageOptionsDto.filter) \/ Truthy(pageOptionsDto.topic)
            THEN andWhere(c1, "repo_in", 0, "repoNames", {Lower(n) : n \in repos}) ELSE c1
      c3 == IF TruthyCsv(pageOptionsDto.repo)
            THEN andWhere(c2, "repo_in", 0, "repoNames", LowerSplit(pageOptionsDto.repo)) ELSE c2
      c4 == IF TruthyCsv(pageOptionsDto.repoIds)
            THEN andWhere(c3, "repo_id_in", 0, "repoIds", Split(pageOptionsDto.repoIds)) ELSE c3
      c5 == IF Truthy(pageOptionsDto.listId)
            THEN andWhere(c4, "login_in", 0, "userNames", {Lower(u) : u \in users}) ELSE c4
      c6 == IF Truthy(pageOptionsDto.status)
            THEN andWhere(c5, "state_eq", 0, "status", pageOptionsDto.status) ELSE c5
  IN c6

findAllWithFilters(pageOptionsDto, repos, users) ==
  IF RepoSearchCalls(pageOptionsDto) # <<>> /\ repos = Rejected
  THEN Rethrow("findAllWithFilters", pageOptionsDto, RepoSearchFailure,
               RepoSearchCalls(pageOptionsDto))
  ELSE IF ListCalls(pageOptionsDto) # <<>> /\ users = Rejected
  THEN Rethrow("findAllWithFilters", pageOptionsDto, ListFailure,
               RepoSearchCalls(pageOptionsDto) \o ListCalls(pageOptionsDto))
  ELSE /\ execCommonTableExpression("findAllWithFilters", pageOptionsDto,
                                    findAllWithFiltersCte(pageOptionsDto, repos, users))
       /\ calls' = RepoSearchCalls(pageOptionsDto) \o ListCalls(pageOptionsDto)
                     \o <<"getRawOne">>

(* --------------------------- author queries ---------------------------- *)
BadRequest(op, dto) ==
  [kind |-> "error", op |-> op, dto |-> dto, error |-> "BadRequestException"]

Throw(r) ==
  /\ pending = NoPending
  /\ resp' = r
  /\ calls' = <<>>
  /\ UNCHANGED <<events, pending, pulls, parked, source, accounts>>

searchAuthorsCte(pageOptionsDto, repos) ==
  LET startDate == GetPrevDateISOString(pageOptionsDto.prev_days_start_date)
      range == pageOptionsDto.range
      order == pageOptionsDto.orderDirection
      c0 == [join |-> NoJoin, params |-> NoParams,
             wheres |-> <<Clause("time_le", startDate),
                          Clause("time_ge", startDate - range * DayLen)>>,
             partition |-> "author",
             order |-> order]
      c1 == IF Truthy(pageOptionsDto.filter) \/ Truthy(pageOptionsDto.topic)
            THEN andWhere(c0, "repo_in", 0, "repoNames", {Lower(n) : n \in repos}) ELSE c0
      c2 == IF TruthyCsv(pageOptionsDto.repos)
            THEN andWhere(c1, "repo_in", 0, "repoNames", LowerSplit(pageOptionsDto.repos)) ELSE c1
      c3 == IF TruthyCsv(pageOptionsDto.repoIds)
            THEN andWhere(c2, "repo_id_in", 0, "repoIds", Split(pageOptionsDto.repoIds)) ELSE c2
  IN c3

(* the guard of searchAuthors with the repoIds test left out *)
SearchUnscopedNoRepoIds(pageOptionsDto) ==
  ~TruthyCsv(pageOptionsDto.repos)
    /\ ~Truthy(pageOptionsDto.topic) /\ ~Truthy(pageOptionsDto.filter)

(* !repos && !repoIds && !topic && !filter *)
SearchUnscoped(pageOptionsDto) ==
  ~TruthyCsv(pageOptionsDto.repos) /\ ~TruthyCsv(pageOptionsDto.repoIds)
    /\ ~Truthy(pageOptionsDto.topic) /\ ~Truthy(pageOptionsDto.filter)

searchAuthors(pageOptionsDto, repos) ==
  IF SearchUnscoped(pageOptionsDto)
  THEN Throw(BadRequest("searchAuthors", pageOptionsDto))
  ELSE IF RepoSearchCalls(pageOptionsDto) # <<>> /\ repos = Rejected
  THEN Rethrow("searchAuthors", pageOptionsDto, RepoSearchFailure,
               RepoSearchCalls(pageOptionsDto))
  ELSE /\ CountPhase("searchAuthors", "author", pageOptionsDto,
                     searchAuthorsCte(pageOptionsDto, repos))
       /\ calls' = RepoSearchCalls(pageOptionsDto) \o <<"getRawOne">>

MonthJoins(type, repos, startDate, range, prevOn) ==
  [type |-> type, repos |-> repos, startDate |-> startDate, range |-> range, prevOn |-> prevOn]

applyActiveContributorsFilter(queryBuilder, repos, startDate, range) ==
  LET joined == [queryBuilder EXCEPT
                   !.join = MonthJoins("active", LowerSplit(repos), startDate, range, "current")]
  IN andWhere(andWhere(joined, "prev_not_null", 0, "", 0), "cur_not_null", 0, "", 0)

applyNewContributorsFilter(queryBuilder, repos, startDate, range) ==
  LET joined == [queryBuilder EXCEPT
                   !.join = MonthJoins("new", LowerSplit(repos), startDate, range, "previous")]
  IN andWhere(andWhere(joined, "prev_null", 0, "", 0), "cur_not_null", 0, "", 0)

applyAlumniContributorsFilter(queryBuilder, repos, startDate, range) ==
  LET joined == [queryBuilder EXCEPT
                   !.join = MonthJoins("alumni", LowerSplit(repos), startDate, range, "previous")]
  IN andWhere(andWhere(joined, "prev_not_null", 0, "", 0), "cur_null", 0, "", 0)

findAuthorsWithFiltersCte(pageOptionsDto, contribType) ==
  LET startDate == GetPrevDateISOString(pageOptionsDto.prev_days_start_date)
      range == pageOptionsDto.range
      order == pageOptionsDto.orderDirection
      repos == [i \in 1..Len(pageOptionsDto.repos) |-> Lower(pageOptionsDto.repos[i])]
      c0 == [join |-> NoJoin, params |-> NoParams, wheres |-> <<>>,
             partition |-> "author", order |-> order]
      window(days) == [c0 EXCEPT !.wheres = <<Clause("time_le", startDate),
                                              Clause("time_ge", startDate - days * DayLen)>>]
      c1 == CASE contribType = "active" ->
                   applyActiveContributorsFilter(window(range), repos, startDate, range)
              [] contribType = "new" ->
                   applyNewContributorsFilter(window(range), repos, startDate, range)
              [] contribType = "alumni" ->
                   applyAlumniContributorsFilter(window(range + range), repos, startDate, range)
              [] OTHER -> window(range)
      c2 == IF TruthyCsv(pageOptionsDto.repos)
            THEN andWhere(c1, "repo_in", 0, "repoNames", LowerSplit(pageOptionsDto.repos)) ELSE c1
  IN c2

findAuthorsWithFilters(pageOptionsDto, contribType) ==
  /\ CountPhase(contribType, "author", pageOptionsDto,
                findAuthorsWithFiltersCte(pageOptionsDto, contribType))
  /\ calls' = <<"getRawOne">>

(* ------------------------------ aggregates ----------------------------- *)
(* pr_merged_at::DATE - pr_created_at::DATE, NULL when either is NULL *)
DateDiff(e) ==
  IF e.pr_merged_at = NullTime \/ e.pr_created_at = NullTime THEN NullTime
  ELSE ToDate(e.pr_merged_at) - ToDate(e.pr_created_at)

RECURSIVE SumDiff(_)
SumDiff(s) ==
  IF s = <<>> THEN 0
  ELSE (IF DateDiff(Head(s).ev) = NullTime THEN 0 ELSE DateDiff(Head(s).ev)) + SumDiff(Tail(s))

(* (num / den)::INTEGER truncated toward zero *)
CastIntegerTruncated(num, den) ==
  IF num >= 0 THEN num \div den ELSE 0 - ((0 - num) \div den)

(* (num / den)::INTEGER: a numeric is rounded to the nearest integer,
   halves away from zero *)
CastInteger(num, den) ==
  IF num >= 0 THEN (2 * num + den) \div (2 * den)
  ELSE 0 - ((2 * (0 - num) + den) \div (2 * den))

(* AVG(diff)::INTEGER without COALESCE: NULL over no rows *)
AvgOrNull(s) ==
  LET vals == SelectSeq(s, LAMBDA r : DateDiff(r.ev) # NullTime)
  IN IF vals = <<>> THEN NullTime ELSE CastInteger(SumDiff(vals), Len(vals))

(* COALESCE(AVG(diff), 0)::INTEGER over the rows of s; AVG skips NULLs *)
CoalesceAvg(s) ==
  LET vals == SelectSeq(s, LAMBDA r : DateDiff(r.ev) # NullTime)
  IN IF vals = <<>> THEN 0 ELSE CastInteger(SumDiff(vals), Len(vals))

(* `${counterResult?.velocity ?? "0"}` *)
VelocityText(v) == IF v = NullTime THEN TemplateString(0) ELSE TemplateString(v)

CountIf(s, P(_)) == Cardinality({i \in 1..Len(s) : P(s[i])})

execVelocityCommonTableExpression(op, cteBuilder) ==
  IF source = "down" THEN Rethrow(op, UNDEF, QueryFailedError, <<"getRawOne">>) ELSE
  /\ pending = NoPending
  /\ \E rows \in Deduplicated(cteBuilder, events) :
       LET merged == SelectSeq(rows, LAMBDA r : r.ev.pr_is_merged)
       IN resp' = [kind |-> "velocity", cte |-> cteBuilder, op |-> op,
                   velocity |-> parseInt(VelocityText(CoalesceAvg(merged)))]
  /\ calls' = <<"getRawOne">>
  /\ UNCHANGED <<events, pending, pulls, parked, source, accounts>>

findVelocityByPrAuthor(author, range, prevDaysStartDate) ==
  execVelocityCommonTableExpression("findVelocityByPrAuthor",
                                    basePrAuthorCteBuilder(author, range, prevDaysStartDate))

findVelocityByRepoName(repo, range, prevDaysStartDate) ==
  execVelocityCommonTableExpression("findVelocityByRepoName",
                                    baseRepoCteBuilder(repo, range, prevDaysStartDate))

(* counterBaseQueryBuilder: SELECT COUNT(DISTINCT pr_number) over the window *)
counterBaseQueryBuilder(range, prevDay) ==
  LET startDate == GetPrevDateISOString(prevDay) IN
  [join |-> NoJoin, params |-> NoParams,
   wheres |-> <<Clause("time_le", startDate), Clause("time_ge", startDate - range * DayLen)>>,
   partition |-> "none", order |-> "none"]

(* COUNT(DISTINCT pr_number) *)
CountDistinctPrNumber(rows) == Cardinality({r.ev.pr_number : r \in rows})

findCountByPrAuthor(author, range, prevDaysStartDate) ==
  LET queryBuilder == andWhere(counterBaseQueryBuilder(range, prevDaysStartDate),
                               "author_eq", 0, "author", Lower(author))
      count == CountDistinctPrNumber(CteRows(queryBuilder, events))
  IN IF source = "down"
     THEN Rethrow("findCountByPrAuthor", UNDEF, QueryFailedError, <<"getRawOne">>) ELSE
     /\ pending = NoPending
     /\ resp' = [kind |-> "count", author |-> author, range |-> range,
                 op |-> "findCountByPrAuthor", itemCount |-> parseInt(TemplateString(count)),
                 prev_days_start_date |-> prevDaysStartDate]
     /\ calls' = <<"getRawOne">>
     /\ UNCHANGED <<events, pending, pulls, parked, source, accounts>>

(* the aggregate columns of findPrStatsByRepo and genPrHistogram over rows s *)
IsAccepted(r) == Lower(r.ev.pr_action) = "closed" /\ r.ev.pr_is_merged
IsOpen(r) == Lower(r.ev.pr_action) = "opened" /\ ~r.ev.pr_is_draft
IsClosed(r) == Lower(r.ev.pr_action) = "closed" /\ ~r.ev.pr_is_merged
IsDraft(r) == Lower(r.ev.pr_action) = "opened" /\ r.ev.pr_is_draft
IsActive(r) == Lower(r.ev.pr_action) = "opened"
IsSpam(r) == r.ev.pr_active_lock_reason = "spam"

PrVelocity(s) == CoalesceAvg(SelectSeq(s, LAMBDA r : r.ev.pr_is_merged))

(* the rows the statistics query gives: its select list is all aggregates
   and it has no GROUP BY, so it gives one row, over no records too *)
StatsRows(rows) ==
  <<[prs_count |-> Len(rows),
     accepted_prs |-> CountIf(rows, IsAccepted),
     open_prs |-> CountIf(rows, IsOpen),
     closed_prs |-> CountIf(rows, IsClosed),
     draft_prs |-> CountIf(rows, IsDraft),
     active_prs |-> CountIf(rows, IsActive),
     spam_prs |-> CountIf(rows, IsSpam),
     pr_velocity |-> PrVelocity(rows)]>>

NotFound(op) == [kind |-> "error", op |-> op, error |-> "NotFoundException"]

findPrStatsByRepo(repo, range, prevDaysStartDate) ==
  LET cteBuilder == baseRepoCteBuilder(repo, range, prevDaysStartDate) IN
  IF source = "down"
  THEN Rethrow("findPrStatsByRepo", UNDEF, QueryFailedError, <<"getRawOne">>) ELSE
  /\ pending = NoPending
  /\ \E rows \in Deduplicated(cteBuilder, events) :
       LET results == StatsRows(rows) IN
       IF results = <<>>
       THEN resp' = NotFound("findPrStatsByRepo")
       ELSE resp' = [kind |-> "stats", cte |-> cteBuilder, op |-> "findPrStatsByRepo",
                     result |-> results[1]]
  /\ calls' = <<"getRawOne">>
  /\ UNCHANGED <<events, pending, pulls, parked, source, accounts>>

(* date_trunc('day', event_time) in place of time_bucket: the width ignored *)
time_bucketByDay(width, t) == t - (t % DayLen)

(* time_bucket('<width> day', event_time): buckets are aligned to the
   fixed origin of the time axis *)
time_bucket(width, t) == t - (t % (width * DayLen))

genPrHistogramCte(options, repos) ==
  LET startDate == GetPrevDateISOString(options.prev_days_start_date)
      range == options.range
      order == options.orderDirection
      c0 == [join |-> NoJoin, params |-> NoParams,
             wheres |-> <<Clause("time_le", startDate),
                          Clause("time_ge", startDate - range * DayLen)>>,
             partition |-> "pr",
             order |-> order]
      c1 == IF Truthy(options.contributor)
            THEN andWhere(c0, "author_eq", 0, "author", options.contributor) ELSE c0
      c2 == IF Truthy(options.filter) \/ Truthy(options.topic)
            THEN andWhere(c1, "repo_in", 0, "repoNames", {Lower(n) : n \in repos}) ELSE c1
      c3 == IF TruthyCsv(options.repo)
            THEN andWhere(c2, "repo_in", 0, "repoNames", LowerSplit(options.repo)) ELSE c2
      c4 == IF TruthyCsv(options.repoIds)
            THEN andWhere(c3, "repo_id_in", 0, "repoIds", Split(options.repoIds)) ELSE c3
  IN c4

(* ORDER BY bucket, the direction of the request dropped *)
RECURSIVE OrderBucketsAscending(_, _)
OrderBucketsAscending(keys, order) ==
  IF keys = {} THEN <<>>
  ELSE LET first == CHOOSE k \in keys : \A l \in keys : k <= l
       IN <<first>> \o OrderBucketsAscending(keys \ {first}, order)

(* GROUP BY bucket ORDER BY bucket <order> *)
RECURSIVE OrderBuckets(_, _)
OrderBuckets(keys, order) ==
  IF keys = {} THEN <<>>
  ELSE LET first == IF order = "ASC"
                    THEN CHOOSE k \in keys : \A l \in keys : k <= l
                    ELSE CHOOSE k \in keys : \A l \in keys : k >= l
       IN <<first>> \o OrderBuckets(keys \ {first}, order)

(* a running total: every bucket counts the records up to its own *)
HistogramRowCumulative(width, rows, b) ==
  LET s == SelectSeq(rows, LAMBDA r : time_bucket(width, r.ev.event_time) <= b) IN
  [prs_count |-> Len(s), accepted_prs |-> CountIf(s, IsAccepted),
   closed_prs |-> CountIf(s, IsClosed),
   draft_prs |-> CountIf(s, IsDraft),
   active_prs |-> CountIf(s, IsActive),
   spam_prs |-> CountIf(s, IsSpam),
   pr_velocity |-> PrVelocity(s),
   bucket |-> b]

HistogramRow(width, rows, b) ==
  LET s == SelectSeq(rows, LAMBDA r : time_bucket(width, r.ev.event_time) = b) IN
  [prs_count |-> Len(s), accepted_prs |-> CountIf(s, IsAccepted),
   closed_prs |-> CountIf(s, IsClosed),
   draft_prs |-> CountIf(s, IsDraft),
   active_prs |-> CountIf(s, IsActive),
   spam_prs |-> CountIf(s, IsSpam),
   pr_velocity |-> PrVelocity(s),
   bucket |-> b]

(* !contributor && !repo && !topic && !filter && !repoIds *)
HistogramUnscoped(options) ==
  ~Truthy(options.contributor) /\ ~TruthyCsv(options.repo) /\ ~Truthy(options.topic)
    /\ ~Truthy(options.filter) /\ ~TruthyCsv(options.repoIds)

genPrHistogram(options, repos) ==
  IF HistogramUnscoped(options)
  THEN Throw(BadRequest("genPrHistogram", options))
  ELSE IF RepoSearchCalls(options) # <<>> /\ repos = Rejected
  THEN Rethrow("genPrHistogram", options, RepoSearchFailure, RepoSearchCalls(options))
  ELSE IF source = "down"
  THEN Rethrow("genPrHistogram", options, QueryFailedError,
               RepoSearchCalls(options) \o <<"getRawMany">>)
  ELSE LET cteBuilder == genPrHistogramCte(options, repos)
           width == options.width IN
       /\ pending = NoPending
       /\ \E rows \in Deduplicated(cteBuilder, events) :
            LET keys == {time_bucket(width, rows[i].ev.event_time) : i \in 1..Len(rows)}
                ordered == OrderBuckets(keys, options.orderDirection)
            IN resp' = [kind |-> "histogram", cte |-> cteBuilder,
                        order |-> options.orderDirection,
                        op |-> "genPrHistogram", dto |-> options, width |-> width,
                        buckets |-> [i \in 1..Len(ordered) |->
                                       HistogramRow(width, rows, ordered[i])]]
       /\ calls' = RepoSearchCalls(options) \o <<"getRawMany">>
       /\ UNCHANGED <<events, pending, pulls, parked, source, accounts>>

(* ------------------- contributor ranges (PullRequestService) ----------- *)
(* the rows of table repos that pull_requests joins *)
ReposTable == {"1", "2"}

(* a row of pull_requests is written by the sync; a page already returned is
   consumed *)
Upsert(row) ==
  /\ Cardinality(pulls) < MaxEvents
  /\ row \notin pulls
  /\ pulls' = pulls \cup {row}
  /\ resp' = NoResp
  /\ calls' = <<>>
  /\ UNCHANGED <<events, pending, parked, source, accounts>>

(* pageOptionsDto.repoIds?.split(",") ?? [] *)
SplitOrEmpty(repoIds) == IF repoIds = NoCsv THEN <<>> ELSE repoIds

(* the range closed at its upper end, as BETWEEN is *)
ContributorRangeClosed(table, start_date, start_range, end_range, repoIds) ==
  {p.author_login :
     p \in {q \in table : /\ q.repo_id \in ReposTable
                           /\ q.updated_at >= start_date - end_range * DayLen
                           /\ q.updated_at <= start_date - start_range * DayLen
                           /\ q.author_login # ""
                           /\ q.repo_id \in Split(repoIds)}}

(* SELECT DISTINCT author_login FROM pull_requests INNER JOIN repos ...
   WHERE updated_at >= start - end_range days AND updated_at < start - start_range days
   AND author_login != '' AND repos.id IN (repoIds) *)
ContributorRange(table, start_date, start_range, end_range, repoIds) ==
  {p.author_login :
     p \in {q \in table : /\ q.repo_id \in ReposTable
                           /\ q.updated_at >= start_date - end_range * DayLen
                           /\ q.updated_at < start_date - start_range * DayLen
                           /\ q.author_login # ""
                           /\ q.repo_id \in Split(repoIds)}}

(* the rows of a query without ORDER BY come in any order *)
AnyOrder(set) ==
  {s \in [1..Cardinality(set) -> set] : \A i, j \in DOMAIN s : i # j => s[i] # s[j]}

(* what the database answers: repos.id is a number, and a parameter that is
   not one either fails the statement or matches no row *)
RangeQuery(op, dto, authors, pageMeta) ==
  /\ \E failed \in IF \E i \in 1..Len(dto.repoIds) : dto.repoIds[i] = ""
                    THEN BOOLEAN ELSE {FALSE} :
       IF failed
       THEN resp' = QueryFailed(op, dto)
       ELSE \E entities \in AnyOrder(authors) :
              resp' = [kind |-> "authors", skip |-> pageMeta.skip, limit |-> pageMeta.limit,
                       op |-> op, dto |-> dto,
                       itemCount |-> Len(entities), entities |-> entities]
  /\ calls' = <<"getRawMany">>
  /\ UNCHANGED <<events, pending, pulls, parked, source, accounts>>

(* getContributorRangeQueryBuilder: "if (repoIds.length === 0) throw" is the
   guard of every range query, ahead of the query itself *)
getContributorRangeQueryBuilder(op, dto, authors, pageMeta) ==
  /\ pending = NoPending
  /\ IF Len(SplitOrEmpty(dto.repoIds)) = 0
     THEN Throw(BadRequest(op, dto))
     ELSE RangeQuery(op, dto, authors, pageMeta)

findNewContributorsInTimeRange(pageOptionsDto) ==
  LET startDate == GetPrevDateISOString(pageOptionsDto.prev_days_start_date)
      range == pageOptionsDto.range
      repoIds == SplitOrEmpty(pageOptionsDto.repoIds)
      current_month == ContributorRange(pulls, startDate, 0, range, repoIds)
      previous_month == ContributorRange(pulls, startDate, range, range + range, repoIds)
  IN getContributorRangeQueryBuilder("findNewContributorsInTimeRange", pageOptionsDto,
                                     current_month \ previous_month, pageOptionsDto)

findAllRecentContributors(pageOptionsDto) ==
  LET startDate == GetPrevDateISOString(pageOptionsDto.prev_days_start_date)
      range == pageOptionsDto.range
      repoIds == SplitOrEmpty(pageOptionsDto.repoIds)
      authors == ContributorRange(pulls, startDate, 0, range, repoIds)
  IN getContributorRangeQueryBuilder("findAllRecentContributors", pageOptionsDto, authors,
                                     [skip |-> 0, limit |-> Cardinality(authors)])

findAllChurnContributors(pageOptionsDto) ==
  LET startDate == GetPrevDateISOString(pageOptionsDto.prev_days_start_date)
      range == pageOptionsDto.range
      repoIds == SplitOrEmpty(pageOptionsDto.repoIds)
      previous_month == ContributorRange(pulls, startDate, range, range + range, repoIds)
      current_month == ContributorRange(pulls, startDate, 0, range, repoIds)
  IN getContributorRangeQueryBuilder("findAllChurnContributors", pageOptionsDto,
                                     previous_month \ current_month, pageOptionsDto)

findAllRepeatContributors(pageOptionsDto) ==
  LET startDate == GetPrevDateISOString(pageOptionsDto.prev_days_start_date)
      range == pageOptionsDto.range
      repoIds == SplitOrEmpty(pageOptionsDto.repoIds)
      previous_month == ContributorRange(pulls, startDate, range, range + range, repoIds)
      current_month == ContributorRange(pulls, startDate, 0, range, repoIds)
  IN getContributorRangeQueryBuilder("findAllRepeatContributors", pageOptionsDto,
                                     previous_month \cap current_month, pageOptionsDto)

(* ------------------------- accounts (UserService) ---------------------- *)
(* the tables that hold rows of a user and that deleteUser soft-deletes *)
Relations == {"highlights", "insights", "collaborations", "request_collaborations", "lists"}

(* the id of the one user of the model *)
UserId == 1

(* user: no row ("absent"), a row ("live"), a row with deleted_at set
   ("deleted"); related[r]: the same for the user's row of table r *)
NoAccount ==
  [user |-> "absent", is_onboarded |-> FALSE, is_open_sauced_member |-> FALSE,
   related |-> [r \in Relations |-> "none"]]

(* a query of the users repository leaves out the rows with deleted_at set *)
Visible(id) == id = UserId /\ accounts.user = "live"

UserStep(r, a) ==
  /\ pending = NoPending
  /\ resp' = r
  /\ accounts' = a
  /\ UNCHANGED <<events, pending, calls, pulls, parked, source>>

(* checkAddUser: the user found is made a member, a user not found is saved
   as a new member (a soft-deleted row of the same id is left out here) *)
checkAddUser(id) ==
  /\ id = UserId /\ accounts.user # "deleted"
  /\ UserStep(NoResp, [accounts EXCEPT !.user = "live", !.is_open_sauced_member = TRUE])

(* updateOnboarding: NotFoundException unless the user is found *)
updateOnboarding(id) ==
  IF Visible(id)
  THEN UserStep(NoResp, [accounts EXCEPT !.is_onboarded = TRUE])
  ELSE UserStep(NotFound("updateOnboarding"), accounts)

(* another service writes the user's row of table r *)
AddRelated(r) ==
  /\ accounts.user = "live" /\ accounts.related[r] = "none"
  /\ UserStep(NoResp, [accounts EXCEPT !.related[r] = "live"])

(* the statements of deleteUser in the order they are awaited; the soft
   deletes of the related rows run together under Promise.all *)
DeleteStages == <<"findOneById", "findOneOrFail", "softDelete", "update", "relations">>

LiveRelations == {r \in Relations : accounts.related[r] = "live"}

(* the rows of accounts after deleteUser has run up to the statement of
   number failedAt, which is rejected; done are the related tables whose soft
   delete had been carried out by then *)
DeletedUpTo(failedAt, done) ==
  LET a1 == IF failedAt > 3 THEN [accounts EXCEPT !.user = "deleted"] ELSE accounts
      a2 == IF failedAt > 4
            THEN [a1 EXCEPT !.is_onboarded = FALSE, !.is_open_sauced_member = FALSE] ELSE a1
  IN [a2 EXCEPT !.related = [r \in Relations |-> IF r \in done THEN "deleted" ELSE @[r]]]

(* deleteUser: every statement is awaited inside one try block whose catch
   throws NotFoundException("Unable to delete user"); no transaction spans
   the statements.  failedAt = Len(DeleteStages) + 1 is the run in which no
   statement is rejected. *)
deleteUser(id) ==
  IF ~Visible(id)
  THEN UserStep(NotFound("deleteUser"), accounts)
  ELSE \E failedAt \in 1..(Len(DeleteStages) + 1) :
         IF failedAt > Len(DeleteStages)
         THEN UserStep([kind |-> "user", op |-> "deleteUser",
                        result |-> [is_onboarded |-> accounts.is_onboarded,
                                    is_open_sauced_member |-> accounts.is_open_sauced_member,
                                    id |-> id]],
                       DeletedUpTo(failedAt, LiveRelations))
         ELSE IF failedAt = Len(DeleteStages)
         THEN \E done \in SUBSET LiveRelations :
                /\ done # LiveRelations
                /\ UserStep(NotFound("deleteUser"), DeletedUpTo(failedAt, done))
         ELSE UserStep(NotFound("deleteUser"), DeletedUpTo(failedAt, {}))

(* ---------------------------- specifications --------------------------- *)
Orders == {"ASC", "DESC"}

Init ==
  /\ events = <<>>
  /\ pending = NoPending
  /\ resp = NoResp
  /\ calls = <<>>
  /\ pulls = {}
  /\ parked = NoPending
  /\ source = "up"
  /\ accounts = NoAccount

(* Spec: the pull-request listings and the histogram, whole pages *)
(* a pull request has one repo and one author; its events differ in time *)
PullRequests ==
  {[login |-> "x", repo |-> "a/b", pr |-> 1],
   [login |-> "Y", repo |-> "a/b", pr |-> 2],
   [login |-> "x", repo |-> "c/d", pr |-> 1]}

ListingEvents ==
  {MkEvent(p.pr, p.repo, p.login, t, "opened", "open", FALSE, FALSE, t, NullTime, NULL) :
     p \in PullRequests, t \in {Now - DayLen - 1, Now - 1, Now}}

PageOptions ==
  [range : {1}, skip : {0}, limit : {MaxEvents},
   prev_days_start_date : {0}, orderDirection : Orders]

PrPageOptions ==
  [repo : {NoCsv, <<"A/B">>}, repoIds : {NoCsv}, status : {UNDEF},
   range : {1}, skip : {0}, limit : {MaxEvents},
   filter : {UNDEF}, topic : {UNDEF}, listId : {UNDEF},
   prev_days_start_date : {0}, orderDirection : Orders, distinctAuthors : BOOLEAN,
   contributor : {UNDEF, "y"}]

HistogramOptions ==
  [repo : {<<"A/B">>}, repoIds : {NoCsv}, range : {1}, filter : {UNDEF},
   topic : {UNDEF}, prev_days_start_date : {0}, orderDirection : Orders,
   contributor : {UNDEF}, width : {1}]

IngestListing == \E e \in ListingEvents : Ingest(e)

ListByAuthor == \E o \in PageOptions, author \in {"X", "y"} : findAllByPrAuthor(author, o)

ListWithFilters == \E o \in PrPageOptions : findAllWithFilters(o, {}, {})

Histogram == \E o \in HistogramOptions : genPrHistogram(o, {})

CountByAuthor == \E author \in {"X", "y"} : findCountByPrAuthor(author, 1, 0)

Next ==
  IngestListing \/ ListByAuthor \/ ListWithFilters \/ Histogram \/ CountByAuthor \/ ItemPhase

Spec == Init /\ [][Next]_vars

(* SpecPage: the paginated queries under every skip and limit *)
PageEvents ==
  {MkEvent(p.pr, "a/b", p.login, t, "opened", "open", FALSE, FALSE, t, NullTime, NULL) :
     p \in {[login |-> "x", pr |-> 1], [login |-> "x", pr |-> 2], [login |-> "y", pr |-> 3]},
     t \in {Now - 1, Now}}

SlicedOptions ==
  [range : {1}, skip : 0..MaxSkip, limit : 1..MaxLimit,
   prev_days_start_date : {0}, orderDirection : {"DESC"}]

SlicedAuthorOptions ==
  [repoIds : {NoCsv}, repos : {<<"a/b">>}, range : {1},
   skip : 0..MaxSkip, limit : 1..MaxLimit,
   filter : {UNDEF}, topic : {UNDEF}, prev_days_start_date : {0}, orderDirection : {"DESC"}]

IngestPage == \E e \in PageEvents : Ingest(e)

PageByAuthor == \E o \in SlicedOptions : findAllByPrAuthor("x", o)

PageSearchAuthors == \E o \in SlicedAuthorOptions : searchAuthors(o, {})

PageAuthorsWithFilters ==
  \E o \in SlicedAuthorOptions, t \in {"all", "new"} : findAuthorsWithFilters(o, t)

NextPage ==
  IngestPage \/ PageByAuthor \/ PageSearchAuthors \/ PageAuthorsWithFilters \/ ItemPhase

SpecPage == Init /\ [][NextPage]_vars

(* SpecCohort: the contributor cohorts of findAuthorsWithFilters *)
CohortEvents ==
  {MkEvent(1, repo, login, t, "opened", "open", FALSE, FALSE, t, NullTime, NULL) :
     repo \in {"a/b", "c/d"}, login \in {"x", "Y"},
     t \in {Now - 2 * DayLen, Now - DayLen - 1, Now - DayLen, Now - 1}}

CohortOptions ==
  [repos : {<<"A/B">>}, range : {1}, skip : {0},
   limit : {MaxEvents}, prev_days_start_date : {0}, orderDirection : Orders]

ContribTypes == {"all", "active", "new", "alumni"}

IngestCohort == \E e \in CohortEvents : Ingest(e)

Cohort == \E o \in CohortOptions, t \in ContribTypes : findAuthorsWithFilters(o, t)

NextCohort == IngestCohort \/ Cohort \/ ItemPhase

SpecCohort == Init /\ [][NextCohort]_vars

(* SpecVelocity: velocity, repo statistics and the histogram *)
Today == ToDate(Now)

(* opened; closed unmerged; merged one tick after creation, across midnight
   (1 day by date); merged two days by date after creation *)
Lifecycles ==
  {[action |-> "opened", state |-> "open", merged |-> FALSE,
    created |-> Now - DayLen, mergedAt |-> NullTime],
   [action |-> "closed", state |-> "closed", merged |-> FALSE,
    created |-> Now - DayLen, mergedAt |-> NullTime],
   [action |-> "closed", state |-> "closed", merged |-> TRUE,
    created |-> (Today - 1) * DayLen - 1, mergedAt |-> (Today - 1) * DayLen],
   [action |-> "closed", state |-> "closed", merged |-> TRUE,
    created |-> (Today - 3) * DayLen, mergedAt |-> (Today - 1) * DayLen + 1]}

VelocityEvents ==
  {MkEvent(pr, "a/b", "x", t, l.action, l.state, FALSE, l.merged, l.created, l.mergedAt, NULL) :
     pr \in 1..2, t \in {Now - 1, Now}, l \in Lifecycles}
  \cup {MkEvent(1, "c/d", "y", Now, "closed", "closed", FALSE, TRUE, Now - DayLen, Now, NULL)}

VelocityHistogramOptions ==
  [repo : {NoCsv}, repoIds : {NoCsv}, range : {1}, filter : {UNDEF},
   topic : {UNDEF}, prev_days_start_date : {0}, orderDirection : Orders,
   contributor : {UNDEF, "X"}, width : {1}]

IngestVelocity == \E e \in VelocityEvents : Ingest(e)

VelocityByAuthor == findVelocityByPrAuthor("X", 1, 0)

VelocityByRepo == findVelocityByRepoName("A/B", 1, 0)

StatsByRepo == findPrStatsByRepo("a/b", 1, 0)

VelocityHistogram == \E o \in VelocityHistogramOptions : genPrHistogram(o, {})

NextVelocity ==
  IngestVelocity \/ VelocityByAuthor \/ VelocityByRepo \/ StatsByRepo \/ VelocityHistogram

SpecVelocity == Init /\ [][NextVelocity]_vars

(* SpecFilter: criteria combined, and requests without any criterion *)
(* the repo-search collaborator: the full names of the repos it finds for a
   named filter or a topic *)
RepoSearch(filter, topic) ==
  IF Truthy(topic) THEN {"C/D"}
  ELSE IF Truthy(filter) THEN {"A/B", "C/D"}
  ELSE {}

FilterEvents ==
  {MkEvent(1, repo, "x", t, "opened", "open", FALSE, FALSE, t, NullTime, NULL) :
     repo \in {"a/b", "c/d"}, t \in {Now - 1, Now}}

FilterPrOptions ==
  [repo : {NoCsv, <<"A/B">>, <<"a/b", "c/d">>}, repoIds : {NoCsv}, status : {UNDEF},
   range : {1}, skip : {0}, limit : {MaxEvents},
   filter : {UNDEF, "recent"}, topic : {UNDEF, "t"}, listId : {UNDEF},
   prev_days_start_date : {0}, orderDirection : {"DESC"}, distinctAuthors : {FALSE},
   contributor : {UNDEF}]

FilterHistogramOptions ==
  [repo : {NoCsv, <<"">>, <<"A/B">>}, repoIds : {NoCsv, <<"1">>}, range : {1},
   filter : {UNDEF}, topic : {UNDEF, "t"}, prev_days_start_date : {0},
   orderDirection : {"DESC"}, contributor : {UNDEF, "", "x"}, width : {1}]

FilterAuthorOptions ==
  [repoIds : {NoCsv, <<"1">>}, repos : {NoCsv, <<"">>, <<"A/B">>}, range : {1},
   skip : {0}, limit : {MaxEvents},
   filter : {UNDEF, "recent"}, topic : {UNDEF, "t"}, prev_days_start_date : {0},
   orderDirection : {"DESC"}]

IngestFilter == \E e \in FilterEvents : Ingest(e)

FilterList ==
  \E o \in FilterPrOptions : findAllWithFilters(o, RepoSearch(o.filter, o.topic), {})

FilterHistogram ==
  \E o \in FilterHistogramOptions : genPrHistogram(o, RepoSearch(o.filter, o.topic))

FilterSearchAuthors ==
  \E o \in FilterAuthorOptions : searchAuthors(o, RepoSearch(o.filter, o.topic))

NextFilter ==
  IngestFilter \/ FilterList \/ FilterHistogram \/ FilterSearchAuthors \/ ItemPhase

SpecFilter == Init /\ [][NextFilter]_vars

(* SpecRange: the contributor-range queries of PullRequestService *)
PullRows ==
  [repo_id : ReposTable, author_login : {"x", "y", ""},
   updated_at : {Now - 2 * DayLen, Now - DayLen - 1, Now - DayLen, Now}]

RangeOptions ==
  [repoIds : {NoCsv, <<"">>, <<"1">>, <<"1", "2">>}, range : {1},
   skip : {0, 1}, limit : {1}, prev_days_start_date : {0}]

UpsertPull == \E row \in PullRows : Upsert(row)

NewContributors == \E o \in RangeOptions : findNewContributorsInTimeRange(o)

RecentContributors == \E o \in RangeOptions : findAllRecentContributors(o)

ChurnContributors == \E o \in RangeOptions : findAllChurnContributors(o)

RepeatContributors == \E o \in RangeOptions : findAllRepeatContributors(o)

NextRange ==
  UpsertPull \/ NewContributors \/ RecentContributors \/ ChurnContributors
    \/ RepeatContributors

SpecRange == Init /\ [][NextRange]_vars

(* SpecHistogram: histograms over several buckets and widths *)
BucketLifecycles ==
  {[action |-> "opened", state |-> "open", draft |-> FALSE, merged |-> FALSE],
   [action |-> "opened", state |-> "open", draft |-> TRUE, merged |-> FALSE],
   [action |-> "closed", state |-> "closed", draft |-> FALSE, merged |-> TRUE]}

BucketEvents ==
  {MkEvent(pr, "a/b", "x", t, l.action, l.state, l.draft, l.merged, Now - 2 * DayLen,
           IF l.merged THEN t ELSE NullTime, NULL) :
     pr \in 1..2, t \in {Now - DayLen - 1, Now - 1, Now}, l \in BucketLifecycles}

BucketOptions ==
  [repo : {<<"A/B">>}, repoIds : {NoCsv}, range : {1, 2}, filter : {UNDEF},
   topic : {UNDEF}, prev_days_start_date : {0}, orderDirection : Orders,
   contributor : {UNDEF}, width : {1, 2}]

IngestBucket == \E e \in BucketEvents : Ingest(e)

BucketHistogram == \E o \in BucketOptions : genPrHistogram(o, {})

NextHistogram == IngestBucket \/ BucketHistogram

SpecHistogram == Init /\ [][NextHistogram]_vars

(* SpecStatus: the status filter of findAllWithFilters *)
(* a stored pr_state in lower case, as GitHub sends it, or in upper case *)
StatusEvents ==
  {MkEvent(pr, "a/b", "x", t, s.action, s.state, FALSE, FALSE, Now - DayLen, NullTime, NULL) :
     pr \in 1..2, t \in {Now - 1, Now},
     s \in {[action |-> "opened", state |-> "open"],
            [action |-> "reopened", state |-> "OPEN"],
            [action |-> "closed", state |-> "closed"]}}

StatusOptions ==
  [repo : {NoCsv}, repoIds : {NoCsv}, status : {UNDEF, "open", "OPEN", "Closed"},
   range : {1}, skip : {0}, limit : {MaxEvents},
   filter : {UNDEF}, topic : {UNDEF}, listId : {UNDEF},
   prev_days_start_date : {0}, orderDirection : Orders, distinctAuthors : {FALSE},
   contributor : {UNDEF}]

IngestStatus == \E e \in StatusEvents : Ingest(e)

StatusList == \E o \in StatusOptions : findAllWithFilters(o, {}, {})

NextStatus == IngestStatus \/ StatusList \/ ItemPhase

SpecStatus == Init /\ [][NextStatus]_vars

(* SpecUser: the life of an account up to deleteUser *)
SignIn == \E id \in {UserId} : checkAddUser(id)

Onboard == \E id \in {UserId, UserId + 1} : updateOnboarding(id)

Relate == \E r \in Relations : AddRelated(r)

Delete == \E id \in {UserId, UserId + 1} : deleteUser(id)

NextUser == SignIn \/ Onboard \/ Relate \/ Delete

SpecUser == Init /\ [][NextUser]_vars

(* SpecConcurrent: two invocations in flight at once *)
ConcurrentEvents ==
  {MkEvent(1, p.repo, p.login, Now, "opened", "open", FALSE, FALSE, Now, NullTime, NULL) :
     p \in {[login |-> "x", repo |-> "a/b"], [login |-> "y", repo |-> "a/b"],
            [login |-> "x", repo |-> "c/d"]}}

ConcurrentPrOptions ==
  [repo : {<<"A/B">>, <<"c/d">>}, repoIds : {NoCsv}, status : {UNDEF},
   range : {1}, skip : {0}, limit : {MaxEvents},
   filter : {UNDEF}, topic : {UNDEF}, listId : {UNDEF},
   prev_days_start_date : {0}, orderDirection : {"DESC"}, distinctAuthors : {FALSE},
   contributor : {UNDEF}]

ConcurrentAuthorOptions ==
  [repoIds : {NoCsv}, repos : {<<"a/b">>}, range : {1},
   skip : {0}, limit : {MaxEvents},
   filter : {UNDEF}, topic : {UNDEF}, prev_days_start_date : {0},
   orderDirection : {"DESC"}]

ConcurrentHistogramOptions ==
  [repo : {<<"c/d">>}, repoIds : {NoCsv}, range : {1}, filter : {UNDEF},
   topic : {UNDEF}, prev_days_start_date : {0}, orderDirection : {"ASC"},
   contributor : {UNDEF}, width : {1}]

IngestConcurrent == \E e \in ConcurrentEvents : Ingest(e)

ConcurrentList == \E o \in ConcurrentPrOptions : findAllWithFilters(o, {}, {})

ConcurrentSearch == \E o \in ConcurrentAuthorOptions : searchAuthors(o, {})

ConcurrentHistogram == \E o \in ConcurrentHistogramOptions : genPrHistogram(o, {})

ConcurrentCount == findCountByPrAuthor("x", 1, 0)

NextConcurrent ==
  IngestConcurrent \/ ConcurrentList \/ ConcurrentSearch \/ ConcurrentHistogram
    \/ ConcurrentCount \/ Switch \/ ItemPhase

SpecConcurrent == Init /\ [][NextConcurrent]_vars

(* SpecFailure: collaborators that reject and an event source that is down *)
(* the list-membership collaborator: the usernames of the list *)
ListMembers(listId) == IF Truthy(listId) THEN {"X"} ELSE {}

FailureEvents ==
  {MkEvent(1, repo, "x", Now, "opened", "open", FALSE, FALSE, Now, NullTime, NULL) :
     repo \in {"a/b", "c/d"}}

FailurePrOptions ==
  [repo : {NoCsv}, repoIds : {NoCsv}, status : {UNDEF},
   range : {1}, skip : {0}, limit : {MaxEvents},
   filter : {UNDEF, "recent"}, topic : {UNDEF}, listId : {UNDEF, "7"},
   prev_days_start_date : {0}, orderDirection : {"DESC"}, distinctAuthors : {FALSE},
   contributor : {UNDEF}]

FailureHistogramOptions ==
  [repo : {NoCsv, <<"a/b">>}, repoIds : {NoCsv}, range : {1}, filter : {UNDEF},
   topic : {UNDEF, "t"}, prev_days_start_date : {0}, orderDirection : {"DESC"},
   contributor : {UNDEF}, width : {1}]

FailureAuthorOptions ==
  [repoIds : {NoCsv}, repos : {NoCsv, <<"a/b">>}, range : {1},
   skip : {0}, limit : {MaxEvents},
   filter : {UNDEF}, topic : {UNDEF, "t"}, prev_days_start_date : {0},
   orderDirection : {"DESC"}]

IngestFailure == \E e \in FailureEvents : Ingest(e)

FailureList ==
  \E o \in FailurePrOptions :
    \E repos \in {RepoSearch(o.filter, o.topic), Rejected},
       users \in {ListMembers(o.listId), Rejected} :
      findAllWithFilters(o, repos, users)

FailureHistogram ==
  \E o \in FailureHistogramOptions :
    \E repos \in {RepoSearch(o.filter, o.topic), Rejected} : genPrHistogram(o, repos)

FailureSearch ==
  \E o \in FailureAuthorOptions :
    \E repos \in {RepoSearch(o.filter, o.topic), Rejected} : searchAuthors(o, repos)

NextFailure ==
  IngestFailure \/ Outage \/ FailureList \/ FailureHistogram \/ FailureSearch \/ ItemPhase

SpecFailure == Init /\ [][NextFailure]_vars

(* ------------------------------ properties ----------------------------- *)
(* the events of the log that pass the window and the filters of a CTE *)
Passing(cte) == CteRows(cte, events)

(* the partitions that have a passing event *)
Partitions(cte) == {PartitionKey(cte, r) : r \in Passing(cte)}

(* the latest event_time among the passing events of partition k *)
LatestTime(cte, k) ==
  CHOOSE t \in {r.ev.event_time : r \in {q \in Passing(cte) : PartitionKey(cte, q) = k}} :
    \A r \in Passing(cte) : PartitionKey(cte, r) = k => r.ev.event_time <= t

IsPrPage == resp.kind = "page" /\ resp.cte.partition = "pr"

WholePage == resp.kind = "page" /\ resp.skip = 0 /\ resp.limit >= Len(events)

EntityKey(en) == <<en.pr_number, en.repo_name>>

(* C1: in every listing by (pr_number, repo_name) and in the histogram, the
   record kept for a partition is its passing event of maximum event_time,
   whatever the order direction of the request. *)
C1_LatestEventKept ==
  /\ IsPrPage =>
       \A i \in 1..Len(resp.entities) :
         resp.entities[i].event_time = LatestTime(resp.cte, EntityKey(resp.entities[i]))
  /\ resp.kind = "histogram" =>
       \A i \in 1..Len(resp.buckets) :
         resp.buckets[i].prs_count =
           Cardinality({k \in Partitions(resp.cte) :
                          time_bucket(resp.width, LatestTime(resp.cte, k))
                            = resp.buckets[i].bucket})

(* C2: every (pr_number, repo_name) partition with a passing event gives
   exactly one record of the deduplicated set, every other partition none. *)
C2_OneRecordPerPartition ==
  (IsPrPage /\ WholePage) =>
    \A k \in {<<e.pr_number, e.repo_name>> : e \in Table(events)} :
      Cardinality({i \in 1..Len(resp.entities) : EntityKey(resp.entities[i]) = k})
        = IF k \in Partitions(resp.cte) THEN 1 ELSE 0

C2_Witness ==
  /\ IsPrPage /\ WholePage
  /\ Len(resp.entities) = 1
  /\ Cardinality(Passing(resp.cte)) = 2
  /\ \A r \in Passing(resp.cte) : r.ev.event_time = Now

(* C3: with no event appended between the count and the items, itemCount is
   the number of records of the whole filtered, windowed, deduplicated set,
   for every skip and limit. *)
C3_ItemCountIsFullCount ==
  (resp.kind = "page" /\ resp.seen = Len(events)) =>
    resp.itemCount = Cardinality(Partitions(resp.cte))

C3_Witness ==
  /\ resp.kind = "page" /\ resp.seen = Len(events)
  /\ resp.op = "searchAuthors"
  /\ resp.skip = 1 /\ resp.limit = 1
  /\ resp.itemCount = 2 /\ Len(resp.entities) = 1

(* C10: a skip at or past the number of deduplicated records gives no items
   and leaves itemCount at that number. *)
C10_SkipPastEnd ==
  (resp.kind = "page" /\ resp.seen = Len(events)
     /\ resp.skip >= Cardinality(Partitions(resp.cte))) =>
    /\ resp.entities = <<>>
    /\ resp.itemCount = Cardinality(Partitions(resp.cte))

C10_Witness ==
  /\ resp.kind = "page" /\ resp.seen = Len(events)
  /\ resp.op = "findAllByPrAuthor"
  /\ resp.skip = MaxSkip
  /\ resp.itemCount = 2
  /\ resp.entities = <<>>

(* ------------------------- cohort properties --------------------------- *)
IsCohortPage(type) == resp.kind = "page" /\ resp.op = type /\ WholePage

Anchor(dto) == GetPrevDateISOString(dto.prev_days_start_date)

(* the windows of the data model: [anchor - range, anchor] and
   [anchor - 2 range, anchor - range] *)
InCurrentWindow(dto, t) == Anchor(dto) - dto.range * DayLen <= t /\ t <= Anchor(dto)

InPreviousWindow(dto, t) ==
  Anchor(dto) - 2 * dto.range * DayLen <= t /\ t <= Anchor(dto) - dto.range * DayLen

(* the events of an author in the filtered repos *)
EventsOf(dto, login) ==
  {e \in Table(events) : e.pr_author_login = login
                          /\ Lower(e.repo_name) \in LowerSplit(dto.repos)}

PresentInCurrent(dto, login) == \E e \in EventsOf(dto, login) : InCurrentWindow(dto, e.event_time)

PresentInPrevious(dto, login) == \E e \in EventsOf(dto, login) : InPreviousWindow(dto, e.event_time)

Logins == {e.pr_author_login : e \in Table(events)}

(* the logins of the page returned *)
Returned == {resp.entities[i].author_login : i \in 1..Len(resp.entities)}

(* the logins the same request returns for another cohort *)
CohortLogins(dto, type) ==
  {r.ev.pr_author_login : r \in CteRows(findAuthorsWithFiltersCte(dto, type), events)}

(* C4: every login present in the current window is returned by exactly one
   of the cohorts active and new, every login present in the previous window
   by exactly one of active and alumni. *)
C4_CohortsPartition ==
  /\ IsCohortPage("active") =>
       /\ \A l \in Logins : PresentInCurrent(resp.dto, l) =>
            ((l \in Returned) # (l \in CohortLogins(resp.dto, "new")))
       /\ \A l \in Logins : PresentInPrevious(resp.dto, l) =>
            ((l \in Returned) # (l \in CohortLogins(resp.dto, "alumni")))
  /\ IsCohortPage("new") =>
       \A l \in Logins : PresentInCurrent(resp.dto, l) =>
         ((l \in Returned) # (l \in CohortLogins(resp.dto, "active")))
  /\ IsCohortPage("alumni") =>
       \A l \in Logins : PresentInPrevious(resp.dto, l) =>
         ((l \in Returned) # (l \in CohortLogins(resp.dto, "active")))

(* C5: the active cohort holds a login exactly when that author has an event
   in the current window and an event in the previous window. *)
C5_ActiveIffInBothWindows ==
  IsCohortPage("active") =>
    \A l \in Logins :
      (l \in Returned) <=> (PresentInCurrent(resp.dto, l) /\ PresentInPrevious(resp.dto, l))

(* C6: an author with events in the previous window only is in the alumni
   cohort, not in the active cohort, and the alumni record is the author's
   most recent event of the scoping window. *)
C6_AlumniOfPreviousWindow ==
  IsCohortPage("alumni") =>
    \A l \in Logins :
      (PresentInPrevious(resp.dto, l) /\ ~PresentInCurrent(resp.dto, l)) =>
        /\ l \in Returned
        /\ l \notin CohortLogins(resp.dto, "active")
        /\ \A i \in 1..Len(resp.entities) :
             resp.entities[i].author_login = l =>
               \A e \in EventsOf(resp.dto, l) :
                 InPreviousWindow(resp.dto, e.event_time) =>
                   e.event_time <= resp.entities[i].updated_at

(* C7: every event between anchor - 2 range and anchor is a member of exactly
   one of the two window membership sets of the cohort filters. *)
C7_WindowsDisjoint ==
  (resp.kind = "page" /\ resp.cte.join.type # "none") =>
    \A i \in 1..Len(events) :
      (/\ Lower(events[i].repo_name) \in resp.cte.join.repos
       /\ Between(events[i].event_time,
                  resp.cte.join.startDate - 2 * resp.cte.join.range * DayLen,
                  resp.cte.join.startDate)) =>
        ((current_month_prs(<<events[i]>>, resp.cte.join) # {})
           # (previous_month_prs(<<events[i]>>, resp.cte.join) # {}))

(* ------------------------ velocity properties -------------------------- *)
MergedOf(rows) == SelectSeq(rows, LAMBDA r : r.ev.pr_is_merged)

InBucket(rows, width, b) ==
  SelectSeq(rows, LAMBDA r : time_bucket(width, r.ev.event_time) = b)

(* the average of the date differences of rows, truncated toward zero *)
TruncatedAverage(rows) ==
  IF SumDiff(rows) >= 0 THEN SumDiff(rows) \div Len(rows)
  ELSE 0 - ((0 - SumDiff(rows)) \div Len(rows))

(* v is the average of the date differences of rows rounded to the nearest
   whole number, a half going away from zero *)
IsNearestToAverage(v, rows) ==
  IF SumDiff(rows) >= 0
  THEN 2 * Len(rows) * v - Len(rows) <= 2 * SumDiff(rows)
       /\ 2 * SumDiff(rows) < 2 * Len(rows) * v + Len(rows)
  ELSE 2 * Len(rows) * v - Len(rows) < 2 * SumDiff(rows)
       /\ 2 * SumDiff(rows) <= 2 * Len(rows) * v + Len(rows)

ReportedVelocity == IF resp.kind = "velocity" THEN resp.velocity ELSE resp.result.pr_velocity

(* C8 as stated: velocity is the average over the merged deduplicated
   records of merged_at date - created_at date, truncated to whole days. *)
C8_VelocityTruncated ==
  resp.kind \in {"velocity", "stats"} =>
    \E rows \in Deduplicated(resp.cte, events) :
      IF MergedOf(rows) = <<>> THEN ReportedVelocity = 0
      ELSE ReportedVelocity = TruncatedAverage(MergedOf(rows))

(* C8 amended: velocity is that average rounded to the nearest whole number
   of days, a half rounded away from zero. *)
C8_VelocityRounded ==
  resp.kind \in {"velocity", "stats"} =>
    \E rows \in Deduplicated(resp.cte, events) :
      IF MergedOf(rows) = <<>> THEN ReportedVelocity = 0
      ELSE IsNearestToAverage(ReportedVelocity, MergedOf(rows))

C8_Witness ==
  /\ resp.kind = "velocity"
  /\ resp.velocity = 2
  /\ \A rows \in Deduplicated(resp.cte, events) :
       Len(MergedOf(rows)) = 2 /\ SumDiff(MergedOf(rows)) = 3

(* C9: velocity is 0 when the deduplicated set has no merged record, for
   both velocity queries and for pr_velocity of every histogram bucket. *)
C9_VelocityDefaultsToZero ==
  /\ (resp.kind = "velocity"
        /\ \A rows \in Deduplicated(resp.cte, events) : MergedOf(rows) = <<>>)
       => resp.velocity = 0
  /\ resp.kind = "histogram" =>
       \A i \in 1..Len(resp.buckets) :
         (\A rows \in Deduplicated(resp.cte, events) :
            MergedOf(InBucket(rows, resp.width, resp.buckets[i].bucket)) = <<>>)
           => resp.buckets[i].pr_velocity = 0

C9_Witness ==
  /\ resp.kind = "histogram"
  /\ Len(resp.buckets) = 2
  /\ resp.buckets[1].pr_velocity = 0
  /\ resp.buckets[2].pr_velocity > 0
  /\ \A rows \in Deduplicated(resp.cte, events) :
       MergedOf(InBucket(rows, resp.width, resp.buckets[1].bucket)) = <<>>

(* ------------------------- filter properties --------------------------- *)
(* the caller's comma-separated repo names of a request *)
CallerRepos(dto) == IF "repo" \in DOMAIN dto THEN dto.repo ELSE dto.repos

(* the request names a topic or filter and explicit repo names *)
BothRepoCriteria(dto) ==
  (Truthy(dto.filter) \/ Truthy(dto.topic)) /\ TruthyCsv(CallerRepos(dto))

InBothRepoSets(dto, repo_name) ==
  /\ Lower(repo_name) \in {Lower(n) : n \in RepoSearch(dto.filter, dto.topic)}
  /\ Lower(repo_name) \in LowerSplit(CallerRepos(dto))

(* C11: when a topic or filter and explicit repo names are both given, every
   record returned or counted by findAllWithFilters, genPrHistogram and
   searchAuthors is of a repo that the repo search found and that the caller
   named. *)
C11_CriteriaCombinedByAnd ==
  /\ (resp.kind = "page" /\ resp.op \in {"findAllWithFilters", "searchAuthors"}
        /\ BothRepoCriteria(resp.dto)) =>
       /\ \A i \in 1..Len(resp.entities) :
            InBothRepoSets(resp.dto, events[resp.entities[i].event_id].repo_name)
       /\ \A r \in Passing(resp.cte) : InBothRepoSets(resp.dto, r.ev.repo_name)
  /\ (resp.kind = "histogram" /\ BothRepoCriteria(resp.dto)) =>
       \A r \in Passing(resp.cte) : InBothRepoSets(resp.dto, r.ev.repo_name)

(* the request names none of the scoping criteria: every one of them is
   absent or the empty string *)
NoCriterion(dto) ==
  /\ "contributor" \in DOMAIN dto => ~Truthy(dto.contributor)
  /\ ~TruthyCsv(CallerRepos(dto))
  /\ ~TruthyCsv(dto.repoIds)
  /\ ~Truthy(dto.topic)
  /\ ~Truthy(dto.filter)

(* C12: a histogram or author-search request without any scoping criterion
   fails with the validation error before any collaborator is called and
   before any query is sent; a request with a criterion never fails so. *)
C12_UnscopedRequestRejected ==
  /\ (resp.kind # "none" /\ resp.op \in {"genPrHistogram", "searchAuthors"}) =>
       IF NoCriterion(resp.dto)
       THEN resp.kind = "error" /\ resp.error = "BadRequestException" /\ calls = <<>>
       ELSE resp.kind # "error"
  /\ (pending.kind = "counted" /\ pending.op = "searchAuthors") => ~NoCriterion(pending.dto)

C12_Witness ==
  /\ resp.kind = "error" /\ resp.op = "searchAuthors"
  /\ resp.dto.repos = <<"">>
  /\ events # <<>>
  /\ calls = <<>>

(* ---------------------- contributor-range properties ------------------- *)
RangeOps ==
  {"findNewContributorsInTimeRange", "findAllRecentContributors",
   "findAllChurnContributors", "findAllRepeatContributors"}

(* repoIds is absent or names no repo id *)
EmptyRepoIdSet(repoIds) == \A i \in 1..Len(repoIds) : repoIds[i] = ""

(* C13: a contributor-range query given an empty repo-id set, absent or a
   string naming no id, fails with the validation error and sends no query. *)
C13_EmptyRepoIdsRejected ==
  (resp.kind # "none" /\ resp.op \in RangeOps /\ EmptyRepoIdSet(resp.dto.repoIds)) =>
    resp.kind = "error" /\ resp.error = "BadRequestException" /\ calls = <<>>

(* ------------------------ statistics properties ------------------------ *)
(* C14: findPrStatsByRepo raises the not-found error when no event of the
   repo passes the window; it returns statistics only over some record. *)
C14_StatsNotFound ==
  (resp.kind \in {"stats", "error"} /\ resp.op = "findPrStatsByRepo") =>
    IF resp.kind = "stats" THEN Passing(resp.cte) # {}
    ELSE resp.error = "NotFoundException"

(* ------------------------ determinism properties ----------------------- *)
(* C15: when events of one (pr_number, repo_name) partition share the
   event_time of the record kept, the record kept is the one of highest
   event_id, on every evaluation. *)
C15_TieBrokenByEventId ==
  IsPrPage =>
    \A i \in 1..Len(resp.entities) :
      \A r \in Passing(resp.cte) :
        (PartitionKey(resp.cte, r) = EntityKey(resp.entities[i])
           /\ r.ev.event_time = resp.entities[i].event_time) =>
          r.ev.event_id <= resp.entities[i].event_id

(* --------------------------- count properties -------------------------- *)
(* C16: findCountByPrAuthor gives the number of (pr_number, repo_name)
   partitions with an event of the author in the window, which is the
   itemCount of findAllByPrAuthor for the same author, range and anchor. *)
C16_CountIsDeduplicatedCount ==
  resp.kind = "count" =>
    resp.itemCount =
      Cardinality(Partitions(basePrAuthorCteBuilder(resp.author, resp.range,
                                                    resp.prev_days_start_date)))

(* ------------------------- histogram properties ------------------------ *)
IsHistogram == resp.kind = "histogram"

(* the width of a bucket in ticks *)
BucketTicks == resp.width * DayLen

(* the start of the queried window *)
WindowStart == Anchor(resp.dto) - resp.dto.range * DayLen

(* the records that fall into the bucket of key b *)
FallsIn(rows, b) ==
  {j \in 1..Len(rows) : b <= rows[j].ev.event_time /\ rows[j].ev.event_time < b + BucketTicks}

(* the histogram is the grouping of rows into buckets of the given keys *)
GroupsInto(rows) ==
  /\ \A i \in 1..Len(resp.buckets) :
       resp.buckets[i].prs_count = Cardinality(FallsIn(rows, resp.buckets[i].bucket))
  /\ \A j \in 1..Len(rows) :
       \E i \in 1..Len(resp.buckets) : j \in FallsIn(rows, resp.buckets[i].bucket)

(* C17 as stated: the bucket of a record is number
   floor((event_time - window.start) / bucketWidth), counted from the start
   of the queried window (the key is that number or the instant the bucket
   of that number starts at). *)
C17_BucketAnchoredAtWindowStart ==
  IsHistogram =>
    \E rows \in Deduplicated(resp.cte, events) :
      \A j \in 1..Len(rows) :
        LET index == (rows[j].ev.event_time - WindowStart) \div BucketTicks IN
        \E i \in 1..Len(resp.buckets) :
          /\ resp.buckets[i].bucket \in {index, WindowStart + index * BucketTicks}
          /\ resp.buckets[i].prs_count =
               Cardinality({k \in 1..Len(rows) :
                              (rows[k].ev.event_time - WindowStart) \div BucketTicks = index})

(* C17 amended: every bucket key is a whole multiple of the bucket width
   counted from the fixed origin of the time axis, and every deduplicated
   record is in the bucket whose key is its event_time rounded down to such a
   multiple, wherever the queried window starts. *)
C17_BucketAlignedToOrigin ==
  IsHistogram =>
    /\ \A i \in 1..Len(resp.buckets) : resp.buckets[i].bucket % BucketTicks = 0
    /\ \E rows \in Deduplicated(resp.cte, events) : GroupsInto(rows)

C17_Witness ==
  /\ IsHistogram
  /\ resp.width = 2 /\ resp.dto.range = 1
  /\ WindowStart % BucketTicks # 0
  /\ Len(resp.buckets) = 2

(* the sum of prs_count over the first n buckets *)
RECURSIVE SumOfTotals(_)
SumOfTotals(n) == IF n = 0 THEN 0 ELSE SumOfTotals(n - 1) + resp.buckets[n].prs_count

(* C18: no two buckets of a histogram share a key, every deduplicated record
   is counted in exactly one bucket, and the bucket totals add up to the
   number of deduplicated records. *)
C18_BucketsDisjoint ==
  IsHistogram =>
    /\ \A i, k \in 1..Len(resp.buckets) :
         i # k => resp.buckets[i].bucket # resp.buckets[k].bucket
    /\ \E rows \in Deduplicated(resp.cte, events) :
         /\ GroupsInto(rows)
         /\ \A j \in 1..Len(rows) :
              Cardinality({i \in 1..Len(resp.buckets) :
                             j \in FallsIn(rows, resp.buckets[i].bucket)}) = 1
    /\ SumOfTotals(Len(resp.buckets)) = Cardinality(Partitions(resp.cte))

C18_Witness ==
  /\ IsHistogram
  /\ Len(resp.buckets) = 2
  /\ Cardinality(Partitions(resp.cte)) = 2
  /\ Cardinality(Passing(resp.cte)) = 2

(* C19: every bucket reports total, accepted, open, closed-unmerged, draft,
   active, spam and velocity over its own records, with
   open + draft = active and accepted + closed-unmerged <= total. *)
C19_BucketReportsAllCounts ==
  IsHistogram =>
    \A i \in 1..Len(resp.buckets) :
      /\ {"prs_count", "accepted_prs", "open_prs", "closed_prs", "draft_prs",
          "active_prs", "spam_prs", "pr_velocity"} \subseteq DOMAIN resp.buckets[i]
      /\ resp.buckets[i].open_prs + resp.buckets[i].draft_prs = resp.buckets[i].active_prs
      /\ resp.buckets[i].accepted_prs + resp.buckets[i].closed_prs
           <= resp.buckets[i].prs_count

(* C20: a histogram holds a bucket only if a deduplicated record falls in
   it, is empty when no record matches, and its buckets are strictly ordered
   by key in the direction of the request. *)
C20_BucketsSparseAndOrdered ==
  IsHistogram =>
    /\ \A i \in 1..Len(resp.buckets) : resp.buckets[i].prs_count >= 1
    /\ Passing(resp.cte) = {} => resp.buckets = <<>>
    /\ \A i \in 1..(Len(resp.buckets) - 1) :
         IF resp.dto.orderDirection = "ASC"
         THEN resp.buckets[i].bucket < resp.buckets[i + 1].bucket
         ELSE resp.buckets[i].bucket > resp.buckets[i + 1].bucket

C20_Witness ==
  /\ IsHistogram
  /\ resp.dto.orderDirection = "DESC"
  /\ resp.width = 1 /\ resp.dto.range = 2
  /\ Len(resp.buckets) = 2
  /\ resp.buckets[1].bucket - resp.buckets[2].bucket > BucketTicks

(* -------------------------- status properties -------------------------- *)
IsStatusPage ==
  resp.kind = "page" /\ resp.op = "findAllWithFilters" /\ Truthy(resp.dto.status)

(* the query of the same request with the status criterion left out *)
WithoutStatus(dto) == findAllWithFiltersCte([dto EXCEPT !.status = UNDEF], {}, {})

(* C21: an event of the window passes the status filter of findAllWithFilters
   exactly when its stored pr_state and the supplied status are equal
   ignoring letter case, whatever the casing of either. *)
C21_StatusMatchesIgnoringCase ==
  IsStatusPage =>
    \A r \in Passing(WithoutStatus(resp.dto)) :
      (r \in Passing(resp.cte)) <=> (Lower(r.ev.pr_state) = Lower(resp.dto.status))

(* C27: every record listed under a status belongs to a pull request whose
   latest event of the window, over all states, has that status; a pull
   request opened and later closed inside the window is not listed as open. *)
C27_ListedUnderCurrentState ==
  (IsStatusPage /\ resp.seen = Len(events)) =>
    \A i \in 1..Len(resp.entities) :
      \E r \in Passing(WithoutStatus(resp.dto)) :
        /\ PartitionKey(resp.cte, r) = EntityKey(resp.entities[i])
        /\ r.ev.event_time = LatestTime(WithoutStatus(resp.dto), EntityKey(resp.entities[i]))
        /\ Lower(r.ev.pr_state) = Lower(resp.dto.status)

(* ------------------------ pagination properties ------------------------ *)
PagedRangeOps ==
  {"findNewContributorsInTimeRange", "findAllChurnContributors", "findAllRepeatContributors"}

(* the window membership sets of a contributor-range request *)
RangeCurrent(dto) ==
  ContributorRange(pulls, Anchor(dto), 0, dto.range, SplitOrEmpty(dto.repoIds))

RangePrevious(dto) ==
  ContributorRange(pulls, Anchor(dto), dto.range, dto.range + dto.range,
                   SplitOrEmpty(dto.repoIds))

(* the full, unsliced result of a contributor-range query *)
FullRange(op, dto) ==
  CASE op = "findNewContributorsInTimeRange" -> RangeCurrent(dto) \ RangePrevious(dto)
    [] op = "findAllChurnContributors" -> RangePrevious(dto) \ RangeCurrent(dto)
    [] op = "findAllRepeatContributors" -> RangePrevious(dto) \cap RangeCurrent(dto)
    [] OTHER -> RangeCurrent(dto)

(* the number of entries of the slice [skip, skip + limit) of n entries *)
SliceLen(n, skip, limit) == Max2(0, Min2(limit, n - skip))

(* C22: a paginated contributor-cohort query returns the slice of its full
   result that starts at skip and holds at most limit entries, and its
   itemCount is the size of the full result. *)
C22_CohortPageIsSlice ==
  /\ (resp.kind = "authors" /\ resp.op \in PagedRangeOps) =>
       /\ resp.itemCount = Cardinality(FullRange(resp.op, resp.dto))
       /\ Len(resp.entities) = SliceLen(resp.itemCount, resp.dto.skip, resp.dto.limit)
       /\ \A i \in 1..Len(resp.entities) : resp.entities[i] \in FullRange(resp.op, resp.dto)
  /\ (resp.kind = "page" /\ resp.op \in ContribTypes /\ resp.seen = Len(events)) =>
       /\ resp.itemCount = Cardinality(Partitions(resp.cte))
       /\ Len(resp.entities) = SliceLen(resp.itemCount, resp.dto.skip, resp.dto.limit)

(* ------------------------ idempotence properties ----------------------- *)
(* the events behind the records of the page returned, as a log *)
ReturnedLog == [i \in 1..Len(resp.entities) |-> events[resp.entities[i].event_id]]

Range(s) == {s[i] : i \in 1..Len(s)}

(* C23: the records of a deduplicated page are one per (pr_number,
   repo_name), and the partition-and-rank reduction applied to them again,
   in either order direction, gives the same records. *)
C23_DedupIdempotent ==
  IsPrPage =>
    /\ \A i, j \in 1..Len(resp.entities) :
         i # j => EntityKey(resp.entities[i]) # EntityKey(resp.entities[j])
    /\ \A order \in Orders :
         \A again \in Deduplicated([resp.cte EXCEPT !.order = order], ReturnedLog) :
           Range(MapRows(again, "pr")) = Range(resp.entities)

C23_Witness ==
  /\ IsPrPage /\ resp.op = "findAllByPrAuthor" /\ WholePage
  /\ resp.dto.orderDirection = "ASC"
  /\ Len(resp.entities) = 1
  /\ Cardinality({r.ev.event_time : r \in Passing(resp.cte)}) = 2

(* -------------------------- account properties ------------------------- *)
DeleteReturned == resp'.kind = "user" /\ resp'.op = "deleteUser"

DeleteFailed ==
  resp'.kind = "error" /\ resp'.op = "deleteUser" /\ resp'.error = "NotFoundException"

(* C30: a deleteUser that returns the user leaves the user and every related
   row soft-deleted and both flags false; a deleteUser that fails with
   NotFoundException leaves every row as it was. *)
C30_DeleteUserAllOrNothing ==
  [][/\ DeleteReturned =>
          /\ accounts'.user = "deleted"
          /\ ~accounts'.is_onboarded /\ ~accounts'.is_open_sauced_member
          /\ \A r \in Relations : accounts'.related[r] # "live"
     /\ DeleteFailed => accounts' = accounts]_vars

(* ------------------------ concurrency properties ----------------------- *)
(* what an invocation run alone on the log gives for the request of resp *)
AloneCte ==
  IF resp.op = "findAllWithFilters" THEN findAllWithFiltersCte(resp.dto, {}, {})
  ELSE IF resp.op = "searchAuthors" THEN searchAuthorsCte(resp.dto, {})
  ELSE genPrHistogramCte(resp.dto, {})

AlonePages ==
  {MapRows(OffsetLimit(rows, resp.dto.skip, resp.dto.limit),
           IF resp.op = "searchAuthors" THEN "author" ELSE "pr") :
     rows \in Deduplicated(AloneCte, events)}

AloneHistograms ==
  {LET ordered == OrderBuckets({time_bucket(resp.dto.width, rows[i].ev.event_time) :
                                  i \in 1..Len(rows)}, resp.dto.orderDirection)
   IN [i \in 1..Len(ordered) |-> HistogramRow(resp.dto.width, rows, ordered[i])] :
     rows \in Deduplicated(AloneCte, events)}

(* the response is what its request gives when run alone on the log *)
AsIfAlone ==
  /\ (resp.kind = "page" /\ resp.seen = Len(events)) =>
       /\ resp.itemCount = Cardinality(Partitions(AloneCte))
       /\ resp.entities \in AlonePages
  /\ resp.kind = "histogram" => resp.buckets \in AloneHistograms
  /\ resp.kind = "count" =>
       resp.itemCount =
         CountDistinctPrNumber({r \in CteRows(counterBaseQueryBuilder(resp.range, 0), events) :
                                  Lower(r.ev.pr_author_login) = Lower(resp.author)})

(* a step of an operation: an invocation starts, is suspended, is resumed
   or returns *)
OperationStep == pending' # pending \/ parked' # parked \/ resp'.kind # "none"

(* C24: no step of an operation changes the event log, and every response,
   whatever other invocations were in flight meanwhile, is the one its
   request gives when run alone on the same log. *)
C24_ReadOnlyAndIsolated ==
  [][(OperationStep => events' = events) /\ AsIfAlone']_vars

C24_Witness ==
  /\ resp.kind = "page" /\ resp.seen = Len(events)
  /\ parked.kind = "counted" /\ parked.seen = Len(events)
  /\ parked.op # resp.op
  /\ Len(resp.entities) = 2
  /\ parked.itemCount = 1

(* -------------------------- failure properties ------------------------- *)
FilteredOps == {"findAllWithFilters", "genPrHistogram", "searchAuthors"}

(* the calls a request makes to its collaborators, in the order of the code *)
CollaboratorCalls(dto) ==
  RepoSearchCalls(dto) \o (IF "listId" \in DOMAIN dto THEN ListCalls(dto) ELSE <<>>)

(* C25: a request of findAllWithFilters, genPrHistogram or searchAuthors
   whose collaborator or event source fails ends with the very error that
   was raised, after one call of the failing party and no retry; when a
   collaborator fails no query is sent, and no page or histogram is returned
   from a failed collaborator or a failed query. *)
C25_FailurePropagated ==
  /\ (resp.kind = "error" /\ resp.op \in FilteredOps
        /\ resp.error # "BadRequestException") =>
       \/ /\ resp.error = RepoSearchFailure
          /\ calls = RepoSearchCalls(resp.dto) /\ calls # <<>>
       \/ /\ resp.error = ListFailure
          /\ calls = CollaboratorCalls(resp.dto) /\ ListCalls(resp.dto) # <<>>
       \/ /\ resp.error = QueryFailedError /\ source = "down"
          /\ calls \in {CollaboratorCalls(resp.dto) \o <<"getRawOne">>,
                        CollaboratorCalls(resp.dto) \o <<"getRawMany">>,
                        CollaboratorCalls(resp.dto) \o <<"getRawOne", "getRawMany">>}
  /\ (resp.kind \in {"page", "histogram"} /\ resp.op \in FilteredOps) =>
       /\ source = "up"
       /\ "<rejected>" \notin resp.cte.params.repoNames \cup resp.cte.params.userNames

C25_Witness ==
  /\ resp.kind = "error" /\ resp.op = "findAllWithFilters"
  /\ resp.error = ListFailure
  /\ Len(calls) = 2
  /\ events # <<>>
  /\ source = "up"

(* ----------------------- churn and repeat properties ------------------- *)
(* the authors with a pull request of the repo-id set updated in [lo, hi) *)
AuthorsPresent(dto, lo, hi) ==
  {p.author_login :
     p \in {q \in pulls : /\ q.author_login # ""
                           /\ \E i \in 1..Len(dto.repoIds) : dto.repoIds[i] = q.repo_id
                           /\ lo <= q.updated_at /\ q.updated_at < hi}}

(* the previous window [anchor - 2 range, anchor - range) and the current
   window [anchor - range, anchor) *)
InPrevious(dto) ==
  AuthorsPresent(dto, Anchor(dto) - 2 * dto.range * DayLen, Anchor(dto) - dto.range * DayLen)

InCurrent(dto) == AuthorsPresent(dto, Anchor(dto) - dto.range * DayLen, Anchor(dto))

(* C26: findAllChurnContributors returns the authors present in the previous
   window and absent from the current one, findAllRepeatContributors those
   present in both; for one request the two results are disjoint and their
   union is the set of authors present in the previous window. *)
C26_ChurnAndRepeatSplitPrevious ==
  /\ (resp.kind = "authors" /\ resp.op = "findAllChurnContributors") =>
       /\ Range(resp.entities) = InPrevious(resp.dto) \ InCurrent(resp.dto)
       /\ Range(resp.entities) \cap FullRange("findAllRepeatContributors", resp.dto) = {}
       /\ Range(resp.entities) \cup FullRange("findAllRepeatContributors", resp.dto)
            = InPrevious(resp.dto)
  /\ (resp.kind = "authors" /\ resp.op = "findAllRepeatContributors") =>
       /\ Range(resp.entities) = InPrevious(resp.dto) \cap InCurrent(resp.dto)
       /\ Range(resp.entities) \cap FullRange("findAllChurnContributors", resp.dto) = {}
       /\ Range(resp.entities) \cup FullRange("findAllChurnContributors", resp.dto)
            = InPrevious(resp.dto)

C26_Witness ==
  /\ resp.kind = "authors" /\ resp.op = "findAllRepeatContributors"
  /\ resp.entities = <<"x">>
  /\ \E p \in pulls : p.updated_at = Now - DayLen
  /\ \E p \in pulls : p.updated_at = Now - DayLen - 1

(* --------------------- login letter-case properties -------------------- *)
(* the author has an event of the filtered repos in [lo, hi], logins compared
   without regard to letter case *)
MemberIgnoringCase(dto, login, lo, hi) ==
  \E e \in Table(events) : /\ Lower(e.pr_author_login) = Lower(login)
                            /\ Lower(e.repo_name) \in LowerSplit(dto.repos)
                            /\ Between(e.event_time, lo, hi)

CurrentIgnoringCase(dto, login) ==
  MemberIgnoringCase(dto, login, Anchor(dto) - dto.range * DayLen, Anchor(dto))

PreviousIgnoringCase(dto, login) ==
  MemberIgnoringCase(dto, login, Anchor(dto) - 2 * dto.range * DayLen,
                     Anchor(dto) - dto.range * DayLen)

ReturnedIgnoringCase(login) == \E l \in Returned : Lower(l) = Lower(login)

(* C28: the new and alumni cohorts classify an author by membership of the
   current and previous window sets whatever the letter case of the stored
   login, and a page holds one record per author. *)
C28_LoginsMatchedIgnoringCase ==
  /\ IsCohortPage("new") =>
       \A l \in Logins :
         ReturnedIgnoringCase(l) <=>
           (CurrentIgnoringCase(resp.dto, l) /\ ~PreviousIgnoringCase(resp.dto, l))
  /\ IsCohortPage("alumni") =>
       \A l \in Logins :
         ReturnedIgnoringCase(l) <=>
           (PreviousIgnoringCase(resp.dto, l) /\ ~CurrentIgnoringCase(resp.dto, l))
  /\ (IsCohortPage("new") \/ IsCohortPage("alumni")) =>
       \A i, j \in 1..Len(resp.entities) :
         Lower(resp.entities[i].author_login) = Lower(resp.entities[j].author_login) => i = j

(* ------------------- appends between count and items ------------------- *)
ExecOps == {"findAllByPrAuthor", "findAllWithFilters"}

(* C29: a page of execCommonTableExpression never reports an itemCount
   greater than the number of deduplicated records the item phase can see,
   whatever was appended to the log after the count was read, and reports
   exactly that number when nothing was appended in between. *)
C29_CountNeverAheadOfItems ==
  (resp.kind = "page" /\ resp.op \in ExecOps) =>
    /\ resp.itemCount <= Cardinality(Partitions(resp.cte))
    /\ resp.seen = Len(events) => resp.itemCount = Cardinality(Partitions(resp.cte))

C29_Witness ==
  /\ resp.kind = "page" /\ resp.op \in ExecOps
  /\ resp.seen < Len(events)
  /\ resp.itemCount = 1
  /\ Len(resp.entities) = 2

====
